---------------------------- MODULE Spec2Model ----------------------------
(***************************************************************************)
(* A model of posuer, the MCP aggregating interposer:                      *)
(*   - the capability policy of a server configuration (pkg/config),       *)
(*   - the capability registry (pkg/interposer, CapabilityRegistry),       *)
(*   - the interposer engine (AddBackend, removeBackend, Reconfigure,      *)
(*     the upstream facade and the forwarding handlers).                   *)
(*                                                                         *)
(* Strings that the code takes apart or puts together (backend names,      *)
(* item names, URIs) are sequences of one-character strings, so that the   *)
(* rewriting "name-item" is a real concatenation.                          *)
(***************************************************************************)
EXTENDS Integers, Sequences, FiniteSets, TLC

\* ------------------------------------------------------------------------
\* Bounds of the model
\* ------------------------------------------------------------------------

\* longest list of names inside an enable/disable policy
MaxListLen == 2

\* how many clients the factory makes in one run of the interposer
MaxClients == 3

\* longest list of server configurations handed to Reconfigure
MaxConfigs == 2

\* longest backend name and longest raw item name or URI given to transform
MaxNameLen == 2
MaxRawLen == 1

\* ------------------------------------------------------------------------
\* Names
\* ------------------------------------------------------------------------

A == <<"a">>
B == <<"b">>
X == <<"x">>
Y == <<"y">>
U == <<"u">>
T == <<"t">>

\* config.CapabilityType values
CapabilityTypeTool == "tools"
CapabilityTypePrompt == "prompts"
CapabilityTypeTemplate == "templates"
CapabilityTypeResource == "resources"

VARIABLES
  \* ---- the policy harness: a configuration under test and the last answer
  server,        \* a config.Server
  verdict,       \* the last Disabled()/Enabled() call and its result
  \* ---- CapabilityRegistry
  capabilities,  \* CapabilityKey -> backend
  backendCaps,   \* backend -> set of CapabilityKey
  regResult,     \* what the last registry call returned
  \* ---- Interposer
  clients,       \* Interposer.clients: backend name -> client
  srvTools,      \* upstream facade: tool name -> entry
  srvPrompts,    \* upstream facade: prompt name -> entry
  srvResources,  \* upstream facade: resource URI -> entry
  srvTemplates,  \* upstream facade: raw URI template -> entry
  created,       \* how many clients have been initialized (they are 1..created)
  closed,        \* the clients whose Close has been called
  inits,         \* client -> how many Initialize requests it has been sent
  notes,         \* the list-changed notifications sent by the last operation
  \* ---- items.go on its own
  rewritten,     \* the last call of transform: what went in and what came out
  \* ---- CapabilityRegistry under concurrent callers
  mu,            \* CapabilityRegistry.mu: who holds it for writing, for reading
  threads,       \* goroutine -> the registry method it is in and how far it is
  \* ---- config.Watcher and the main that owns it
  cw,            \* the Watcher: its fsnotify watcher, its timer, its loop
  events,        \* the fsnotify Events channel: the events not yet received
  env,           \* the clock, how far main is, the context, the config file
  handled,       \* the times at which handleConfigChange was called
  reloads,       \* the runs of reloadConfig: when, and whether the file loaded
  \* ---- the operations of the Interposer run by concurrent goroutines
  imu,           \* Interposer.mu: who holds it for writing, who for reading
  calls,         \* goroutine -> the operation it runs and how far it is
  \* ---- the last call
  lastOp         \* the last operation, its inputs and what it returned

policyVars == <<server, verdict>>
itemVars == <<rewritten>>
lockVars == <<mu, threads>>
watchVars == <<cw, events, env, handled, reloads>>
callVars == <<imu, calls>>
registryVars == <<capabilities, backendCaps, regResult>>
engineVars ==
  <<clients, srvTools, srvPrompts, srvResources, srvTemplates,
    created, closed, inits, notes, lastOp>>

vars ==
  <<server, verdict, capabilities, backendCaps, regResult,
    clients, srvTools, srvPrompts, srvResources, srvTemplates,
    created, closed, inits, notes, lastOp, rewritten, mu, threads,
    cw, events, env, handled, reloads, imu, calls>>

\* ------------------------------------------------------------------------
\* pkg/config: Capability and Server
\* ------------------------------------------------------------------------

\* A *Capability.  present = FALSE is the nil pointer.  mapNil = TRUE is a
\* nil Capabilities map (Go reads it as an empty map, but it is != nil).
EmptyMap == [t \in {} |-> <<>>]

NoCapability ==
  [present |-> FALSE, All |-> FALSE, mapNil |-> TRUE, Capabilities |-> EmptyMap]

\* Capability.unmarshalBool: `enable: true` / `enable: false`
unmarshalBool(boolValue) ==
  [present |-> TRUE, All |-> boolValue, mapNil |-> TRUE, Capabilities |-> EmptyMap]

\* Capability.unmarshalToolList: `enable: [tool1, tool2]`
unmarshalToolList(tools) ==
  [present |-> TRUE, All |-> FALSE, mapNil |-> FALSE,
   Capabilities |-> [t \in {CapabilityTypeTool} |-> tools]]

\* Capability.unmarshalCapMap: `enable: {tools: [...], prompts: [...]}`
unmarshalCapMap(capMap) ==
  [present |-> TRUE, All |-> FALSE, mapNil |-> FALSE, Capabilities |-> capMap]

\* does the list hold the name (the for/range loops of Enabled and disabled)
InList(list, name) == \E i \in 1..Len(list) : list[i] = name

\* Server.isExplicitlyDisabled
isExplicitlyDisabled(s) == s.Disable.present /\ s.Disable.All

\* Server.hasEmptyEnabledCapabilities
hasEmptyEnabledCapabilities(s) ==
  /\ s.Enable.present
  /\ ~s.Enable.All
  /\ ~s.Enable.mapNil
  /\ Cardinality(DOMAIN s.Enable.Capabilities) = 0

\* Server.hasAllEmptyCapabilityLists
hasAllEmptyCapabilityLists(s) ==
  IF \/ ~s.Enable.present
     \/ s.Enable.All
     \/ s.Enable.mapNil
     \/ Cardinality(DOMAIN s.Enable.Capabilities) = 0
  THEN FALSE
  ELSE \A t \in DOMAIN s.Enable.Capabilities : Len(s.Enable.Capabilities[t]) = 0

\* Server.Disabled
Disabled(s) ==
  isExplicitlyDisabled(s) \/ hasEmptyEnabledCapabilities(s) \/ hasAllEmptyCapabilityLists(s)

\* disabled, but only the boolean form of `disable` is honoured
disabled_allOnly(s, capability, name) ==
  IF Disabled(s) THEN TRUE
  ELSE s.Disable.present /\ s.Disable.All

\* Server.disabled (lower case: is this item switched off)
disabled(s, capability, name) ==
  IF Disabled(s) THEN TRUE
  ELSE IF s.Disable.present
       THEN \/ s.Disable.All
            \/ /\ capability \in DOMAIN s.Disable.Capabilities
               /\ InList(s.Disable.Capabilities[capability], name)
       ELSE FALSE

\* Enabled, but a type missing from the enable map is left open
Enabled_openWhitelist(s, capability, name) ==
  IF Disabled(s) THEN FALSE
  ELSE IF disabled(s, capability, name) THEN FALSE
  ELSE IF ~s.Enable.present THEN TRUE
  ELSE IF s.Enable.All THEN TRUE
  ELSE IF ~s.Enable.mapNil /\ capability \in DOMAIN s.Enable.Capabilities
       THEN InList(s.Enable.Capabilities[capability], name)
  ELSE TRUE

\* Enabled, but neither Disabled() nor disabled() is asked first
Enabled_onlyEnableLists(s, capability, name) ==
  IF ~s.Enable.present THEN TRUE
  ELSE IF s.Enable.All THEN TRUE
  ELSE IF ~s.Enable.mapNil /\ capability \in DOMAIN s.Enable.Capabilities
       THEN InList(s.Enable.Capabilities[capability], name)
  ELSE IF Cardinality(DOMAIN s.Enable.Capabilities) > 0 THEN FALSE
  ELSE TRUE

\* Server.Enabled
Enabled(s, capability, name) ==
  IF Disabled(s) THEN FALSE
  ELSE IF disabled(s, capability, name) THEN FALSE
  ELSE IF ~s.Enable.present THEN TRUE
  ELSE IF s.Enable.All THEN TRUE
  ELSE IF ~s.Enable.mapNil /\ capability \in DOMAIN s.Enable.Capabilities
       THEN InList(s.Enable.Capabilities[capability], name)
  ELSE IF Cardinality(DOMAIN s.Enable.Capabilities) > 0 THEN FALSE
  ELSE TRUE

\* areCapabilityListsEqual (capabilities.go): the same length and, as sets,
\* the same names
areCapabilityListsEqual(firstList, secondList) ==
  /\ Len(firstList) = Len(secondList)
  /\ {firstList[k] : k \in DOMAIN firstList} = {secondList[k] : k \in DOMAIN secondList}

\* areCapabilityMapsEqual (capabilities.go)
areCapabilityMapsEqual(firstMap, secondMap) ==
  /\ Cardinality(DOMAIN firstMap) = Cardinality(DOMAIN secondMap)
  /\ \A capType \in DOMAIN firstMap :
       /\ capType \in DOMAIN secondMap
       /\ areCapabilityListsEqual(firstMap[capType], secondMap[capType])

\* config.CompareCapability
CompareCapability(first, second) ==
  IF ~first.present /\ ~second.present THEN TRUE
  ELSE IF ~first.present \/ ~second.present \/ first.All # second.All THEN FALSE
  ELSE IF first.All THEN TRUE
  ELSE areCapabilityMapsEqual(first.Capabilities, second.Capabilities)

\* ------------------------------------------------------------------------
\* pkg/interposer: CapabilityRegistry
\* ------------------------------------------------------------------------

\* a Go map as a function on the set of its keys
Put(m, k, v) == [x \in DOMAIN m \cup {k} |-> IF x = k THEN v ELSE m[x]]
Delete(m, k) == [x \in DOMAIN m \ {k} |-> m[x]]

CapabilityKey(capType, capName) == [Type |-> capType, Name |-> capName]

NoRegResult ==
  [op |-> "none", capType |-> "", capName |-> <<>>, backend |-> <<>>,
   existed |-> FALSE, byType |-> EmptyMap, backends |-> {}]

\* NewCapabilityRegistry: both maps empty
NewCapabilityRegistry ==
  /\ capabilities = EmptyMap
  /\ backendCaps = EmptyMap
  /\ regResult = NoRegResult

\* the keys of a key set grouped by type: map[type][]names (as sets of names)
GroupByType(keys) ==
  [t \in {k.Type : k \in keys} |-> {k.Name : k \in {q \in keys : q.Type = t}}]

\* CapabilityRegistry.AddCapability on the registry value r
AddCapability(r, backend, capType, capName) ==
  LET key == CapabilityKey(capType, capName)
      mine == IF backend \in DOMAIN r.backendCaps THEN r.backendCaps[backend] ELSE {}
  IN [capabilities |-> Put(r.capabilities, key, backend),
      backendCaps |-> Put(r.backendCaps, backend, mine \cup {key})]

\* RemoveCapability, but for a missing key the first backend is named
RemoveCapability_namesAnOwner(r, capType, capName) ==
  IF CapabilityKey(capType, capName) \notin DOMAIN r.capabilities
  THEN [reg |-> r, backend |-> A, existed |-> TRUE]
  ELSE [reg |-> [capabilities |-> Delete(r.capabilities, CapabilityKey(capType, capName)),
                 backendCaps |-> r.backendCaps],
        backend |-> r.capabilities[CapabilityKey(capType, capName)],
        existed |-> TRUE]

\* CapabilityRegistry.RemoveCapability: the registry after, the owner, existed
RemoveCapability(r, capType, capName) ==
  LET key == CapabilityKey(capType, capName)
  IN IF key \notin DOMAIN r.capabilities
     THEN [reg |-> r, backend |-> <<>>, existed |-> FALSE]
     ELSE LET backend == r.capabilities[key]
          IN [reg |-> [capabilities |-> Delete(r.capabilities, key),
                       backendCaps |->
                         IF backend \in DOMAIN r.backendCaps
                         THEN Put(r.backendCaps, backend, r.backendCaps[backend] \ {key})
                         ELSE r.backendCaps],
              backend |-> backend,
              existed |-> TRUE]

\* CapabilityRegistry.RemoveBackendCapabilities: the registry after, removedByType
RemoveBackendCapabilities(r, backend) ==
  IF backend \notin DOMAIN r.backendCaps
  THEN [reg |-> r, removedByType |-> EmptyMap]
  ELSE LET keys == r.backendCaps[backend]
       IN [reg |-> [capabilities |->
                      [k \in DOMAIN r.capabilities \ keys |-> r.capabilities[k]],
                    backendCaps |-> Delete(r.backendCaps, backend)],
           removedByType |-> GroupByType(keys)]

\* CapabilityRegistry.GetBackendForCapability
GetBackendForCapability(r, capType, capName) ==
  LET key == CapabilityKey(capType, capName)
  IN IF key \in DOMAIN r.capabilities
     THEN [backend |-> r.capabilities[key], existed |-> TRUE]
     ELSE [backend |-> <<>>, existed |-> FALSE]

\* CapabilityRegistry.GetCapabilitiesForBackend
GetCapabilitiesForBackend(r, backend) ==
  IF backend \notin DOMAIN r.backendCaps
  THEN EmptyMap
  ELSE GroupByType(r.backendCaps[backend])

\* CapabilityRegistry.GetAllBackends: the backends with an entry in backendCaps
GetAllBackends(r) == DOMAIN r.backendCaps

\* the registry of the current state as a value
Registry == [capabilities |-> capabilities, backendCaps |-> backendCaps]

\* ------------------------------------------------------------------------
\* The backends: what each one declares and lists when a client asks it
\* ------------------------------------------------------------------------

BackendNames == {A, B}

\* the four kinds of item, named as the registry names them
Kinds == {"tool", "prompt", "resource", "template"}

\* the policy type that addClientTools, addClientPrompts, addClientResources
\* and addClientResourceTemplates pass to addClientItems
ConfigType(kind) ==
  CASE kind = "tool" -> CapabilityTypeTool
    [] kind = "prompt" -> CapabilityTypePrompt
    [] kind = "resource" -> CapabilityTypeResource
    [] kind = "template" -> CapabilityTypeTemplate

\* an mcp.Tool, mcp.Prompt, mcp.Resource or mcp.ResourceTemplate: its Name
\* and, for the last two, its URI or raw URI template
Item(n, u) == [Name |-> n, URI |-> u]

\* InitializeResult.Capabilities of a backend: the non-nil fields
ServerCapabilities(backend) ==
  IF backend = A
  THEN {CapabilityTypeTool, CapabilityTypePrompt, CapabilityTypeResource}
  ELSE {CapabilityTypeTool, CapabilityTypeResource}

\* the pages a backend answers to the List requests of one kind; page i
\* carries the cursor of page i + 1, the last page the empty cursor
Pages(backend, kind) ==
  CASE backend = A /\ kind = "tool" -> << <<Item(X, <<>>)>>, <<Item(Y, <<>>)>> >>
    [] backend = A /\ kind = "prompt" -> << <<Item(X, <<>>)>> >>
    [] backend = A /\ kind = "resource" -> << <<Item(X, U)>> >>
    [] backend = A /\ kind = "template" -> << <<>> >>
    [] backend = B /\ kind = "tool" -> << <<Item(X, <<>>)>> >>
    [] backend = B /\ kind = "prompt" -> << <<Item(Y, <<>>)>> >>
    [] backend = B /\ kind = "resource" -> << <<>> >>
    [] backend = B /\ kind = "template" -> << <<Item(Y, T)>> >>

\* How a backend answers while it is being started: the factory or the
\* Initialize request may fail, and one List request may fail.
Starts == {"ok", "factoryErr", "initErr", "initNil"}

\* the most pages a backend answers a kind with
MaxPages == 2

AnswerOk == [start |-> "ok", failKind |-> "none", failPage |-> 0]

\* the InitializeResult.Capabilities field that addClientCapabilities looks
\* at before it lists the items of a kind
DeclaredBy(kind) ==
  CASE kind = "tool" -> CapabilityTypeTool
    [] kind = "prompt" -> CapabilityTypePrompt
    [] kind = "resource" -> CapabilityTypeResource
    [] kind = "template" -> CapabilityTypeResource

\* the answers to a start; in these every List request succeeds
StartAnswers == {[start |-> s, failKind |-> "none", failPage |-> 0] : s \in Starts}

\* one List request: the cursor 0 is the empty cursor, the cursor i asks for
\* page i; next = 0 is the empty next cursor
ListPage(backend, kind, cursor, answer) ==
  LET pages == Pages(backend, kind)
      idx == IF cursor = 0 THEN 1 ELSE cursor
  IN IF answer.failKind = kind /\ answer.failPage = idx
     THEN [err |-> TRUE, items |-> <<>>, next |-> 0]
     ELSE [err |-> FALSE, items |-> pages[idx],
           next |-> IF idx < Len(pages) THEN idx + 1 ELSE 0]

\* ------------------------------------------------------------------------
\* pkg/interposer: items.go
\* ------------------------------------------------------------------------

\* transform, but the backend name is put in front with no separator
transform_noSeparator(name, kind, item) ==
  IF kind \in {"tool", "prompt"}
  THEN [item EXCEPT !.Name = name \o @]
  ELSE [item EXCEPT !.Name = name \o @, !.URI = name \o @]

\* transform: the item as it is shown upstream
transform(name, kind, item) ==
  CASE kind = "tool" -> [item EXCEPT !.Name = name \o <<"-">> \o @]
    [] kind = "prompt" -> [item EXCEPT !.Name = name \o <<".">> \o @]
    [] kind = "resource" ->
         [item EXCEPT !.Name = name \o <<"-">> \o @, !.URI = name \o <<"+">> \o @]
    [] kind = "template" ->
         [item EXCEPT !.Name = name \o <<"-">> \o @, !.URI = name \o <<"+">> \o @]

HasPrefix(s, prefix) ==
  Len(s) >= Len(prefix) /\ SubSeq(s, 1, Len(prefix)) = prefix

\* strings.TrimPrefix
TrimPrefix(s, prefix) ==
  IF HasPrefix(s, prefix) THEN SubSeq(s, Len(prefix) + 1, Len(s)) ELSE s

\* The closure that handleTool, handlePrompt and handleResource return:
\* the raw item, the client and (for resources) the backend name it captured.
Handler(kind, name, raw, mcpClient) ==
  [kind |-> kind, name |-> name, raw |-> raw, client |-> mcpClient]

\* the request a backend client is sent
BackendRequest(mcpClient, method, target, args) ==
  [client |-> mcpClient, method |-> method, target |-> target, args |-> args]

\* handleTool, but the upstream name is sent on as it came
handleTool_keepsUpstreamName(h, request) ==
  BackendRequest(h.client, "tools/call", request.target, request.args)

\* the handler made by handleTool, called with an upstream request
handleTool(h, request) ==
  BackendRequest(h.client, "tools/call", h.raw.Name, request.args)

\* the handler made by handlePrompt
handlePrompt(h, request) ==
  BackendRequest(h.client, "prompts/get", h.raw.Name, request.args)

\* the handler made by handleResource, for a resource or for a template
handleResource(h, request) ==
  BackendRequest(h.client, "resources/read",
                 IF h.kind = "resource"
                 THEN h.raw.URI
                 ELSE TrimPrefix(request.target, h.name \o <<"+">>),
                 request.args)

\* ------------------------------------------------------------------------
\* pkg/interposer: the Interposer
\* ------------------------------------------------------------------------

\* The Interposer of the current state as a value, at the start of an
\* operation: no notification sent yet.  sendErr is how the upstream server
\* answers SendNotificationToClient during the operation, warnings counts
\* the failures to send that the operation logged, rpcs the requests that
\* UpdateCapabilityConfig sent to the backend.
Interposer ==
  [clients |-> clients, registry |-> Registry,
   tools |-> srvTools, prompts |-> srvPrompts,
   resources |-> srvResources, templates |-> srvTemplates,
   created |-> created, closed |-> closed, inits |-> inits, notes |-> <<>>,
   sendErr |-> FALSE, warnings |-> 0, rpcs |-> 0, listed |-> <<>>]

\* the error AddBackend returns; ErrNone is the nil error
ErrNone == "nil"
ErrCreate == "failed to create MCP client"
ErrInitialize == "failed to initialize MCP client"

NoOp ==
  [op |-> "none", name |-> <<>>, configs |-> <<>>, err |-> ErrNone,
   failed |-> {}, removed |-> EmptyMap, restarted |-> {}, repeat |-> FALSE,
   sendErr |-> FALSE, warnings |-> 0, rpcs |-> 0, answer |-> AnswerOk,
   call |-> [kind |-> "", target |-> <<>>, args |-> "", reply |-> <<>>,
             found |-> FALSE, sent |-> <<>>, result |-> <<>>, err |-> <<>>,
             repeat |-> FALSE],
   closeErrs |-> {}, listed |-> <<>>]

\* NewInterposer: no client, an empty registry, an empty upstream server
NewInterposer ==
  /\ NewCapabilityRegistry
  /\ clients = EmptyMap
  /\ srvTools = EmptyMap
  /\ srvPrompts = EmptyMap
  /\ srvResources = EmptyMap
  /\ srvTemplates = EmptyMap
  /\ created = 0
  /\ closed = {}
  /\ inits = EmptyMap
  /\ notes = <<>>
  /\ lastOp = NoOp

\* what the upstream server keeps for an item: the item and its handler
Entry(item, handler) == [item |-> item, handler |-> handler]

\* Interposer.RegisterTool
RegisterTool(i, backendName, tool, handler) ==
  [i EXCEPT !.tools = Put(@, tool.Name, Entry(tool, handler)),
            !.registry = AddCapability(@, backendName, "tool", tool.Name)]

\* Interposer.RegisterPrompt
RegisterPrompt(i, backendName, prompt, handler) ==
  [i EXCEPT !.prompts = Put(@, prompt.Name, Entry(prompt, handler)),
            !.registry = AddCapability(@, backendName, "prompt", prompt.Name)]

\* Interposer.RegisterResource
RegisterResource(i, backendName, resource, handler) ==
  [i EXCEPT !.resources = Put(@, resource.URI, Entry(resource, handler)),
            !.registry = AddCapability(@, backendName, "resource", resource.Name)]

\* Interposer.RegisterResourceTemplate
RegisterResourceTemplate(i, backendName, template, handler) ==
  [i EXCEPT !.templates = Put(@, template.URI, Entry(template, handler)),
            !.registry = AddCapability(@, backendName, "template", template.Name)]

\* register (items.go): by the type of the item
register(i, name, kind, item, handler) ==
  CASE kind = "tool" -> RegisterTool(i, name, item, handler)
    [] kind = "prompt" -> RegisterPrompt(i, name, item, handler)
    [] kind = "resource" -> RegisterResource(i, name, item, handler)
    [] kind = "template" -> RegisterResourceTemplate(i, name, item, handler)

\* the filter of addClientItems: the items the configuration lets through
RECURSIVE FilterItems(_, _, _)
FilterItems(cfg, kind, items) ==
  IF Len(items) = 0 THEN <<>>
  ELSE (IF Enabled(cfg, ConfigType(kind), Head(items).Name)
        THEN <<Head(items)>> ELSE <<>>)
       \o FilterItems(cfg, kind, Tail(items))

\* what the list function makes of the backend's answer r: an error is
\* passed on, the items of a page are filtered
filterPage(cfg, kind, r) ==
  IF r.err THEN r ELSE [r EXCEPT !.items = FilterItems(cfg, kind, r.items)]

\* the list function addClientItems hands to addItems
list(cfg, kind, cursor, answer) ==
  filterPage(cfg, kind, ListPage(cfg.Name, kind, cursor, answer))

\* the inner loop of addItems: transform and register each item of a page
RECURSIVE RegisterPage(_, _, _, _, _)
RegisterPage(i, name, kind, items, mcpClient) ==
  IF Len(items) = 0 THEN i
  ELSE LET item == Head(items)
       IN RegisterPage(register(i, name, kind, transform(name, kind, item),
                                Handler(kind, name, item, mcpClient)),
                       name, kind, Tail(items), mcpClient)

\* addItems, from the given cursor on; a failed List request ends it
RECURSIVE addItems(_, _, _, _, _, _)

\* one round of the loop of addItems, but the loop ends after the first page
addItemsPage_firstPageOnly(i, cfg, kind, mcpClient, answer, r) ==
  IF r.err THEN [i EXCEPT !.warnings = @ + 1]
  ELSE RegisterPage(i, cfg.Name, kind, r.items, mcpClient)

\* one round of the loop of addItems, the list request answered with r; an
\* error goes back to addClientCapabilities, which logs a warning
addItemsPage(i, cfg, kind, mcpClient, answer, r) ==
  IF r.err THEN [i EXCEPT !.warnings = @ + 1]
  ELSE IF r.next = 0 THEN RegisterPage(i, cfg.Name, kind, r.items, mcpClient)
  ELSE addItems(RegisterPage(i, cfg.Name, kind, r.items, mcpClient),
                cfg, kind, mcpClient, answer, r.next)

\* listed are the List requests sent so far: the kind and the cursor
addItems(i, cfg, kind, mcpClient, answer, cursor) ==
  addItemsPage([i EXCEPT !.listed = Append(@, [kind |-> kind, cursor |-> cursor])],
               cfg, kind, mcpClient, answer, list(cfg, kind, cursor, answer))

\* addClientTools, addClientPrompts, addClientResources,
\* addClientResourceTemplates, when the backend declares the capability
addClientKind(i, declared, kind, mcpClient, cfg, answer) ==
  IF DeclaredBy(kind) \in declared
  THEN addItems(i, cfg, kind, mcpClient, answer, 0)
  ELSE i

\* addClientCapabilities, but it returns at the first kind that fails
addClientCapabilities_returnsAtFailure(i, mcpClient, declared, cfg, answer) ==
  IF Disabled(cfg) THEN i
  ELSE LET t == addClientKind(i, declared, "tool", mcpClient, cfg, answer)
           p == IF t.warnings > i.warnings THEN t
                ELSE addClientKind(t, declared, "prompt", mcpClient, cfg, answer)
           r == IF p.warnings > i.warnings THEN p
                ELSE addClientKind(p, declared, "resource", mcpClient, cfg, answer)
       IN IF r.warnings > i.warnings THEN r
          ELSE addClientKind(r, declared, "template", mcpClient, cfg, answer)

\* Interposer.addClientCapabilities
addClientCapabilities(i, mcpClient, declared, cfg, answer) ==
  IF Disabled(cfg) THEN i
  ELSE LET t == addClientKind(i, declared, "tool", mcpClient, cfg, answer)
           p == addClientKind(t, declared, "prompt", mcpClient, cfg, answer)
           r == addClientKind(p, declared, "resource", mcpClient, cfg, answer)
       IN addClientKind(r, declared, "template", mcpClient, cfg, answer)

\* Initialize (initialize.go): the capabilities the backend declares, or an
\* error when the request fails or the result is nil
Initialize(cfg, answer) ==
  IF answer.start \in {"initErr", "initNil"}
  THEN [err |-> TRUE, declared |-> {}]
  ELSE [err |-> FALSE, declared |-> ServerCapabilities(cfg.Name)]

\* AddBackend, but the client is stored before it is initialized
AddBackend_storesFirst(i, name, cfg, answer) ==
  IF answer.start = "factoryErr" THEN [i |-> i, err |-> ErrCreate]
  ELSE IF Initialize(cfg, answer).err
  THEN [i |-> [i EXCEPT !.clients = Put(@, name, i.created + 1)],
        err |-> ErrInitialize]
  ELSE [i |-> addClientCapabilities(
                [i EXCEPT !.clients = Put(@, name, i.created + 1),
                          !.created = i.created + 1,
                          !.inits = Put(@, i.created + 1, 1)],
                i.created + 1, Initialize(cfg, answer).declared, cfg, answer),
        err |-> ErrNone]

\* Interposer.AddBackend: the Interposer after, and the error returned.
\* The client the factory made is mcpClient; when Initialize fails it is
\* neither kept nor closed, and nothing of the Interposer refers to it.
AddBackend(i, name, cfg, answer) ==
  IF answer.start = "factoryErr" THEN [i |-> i, err |-> ErrCreate]
  ELSE LET mcpClient == i.created + 1
           result == Initialize(cfg, answer)
       IN IF result.err
          THEN [i |-> i, err |-> ErrInitialize]
          ELSE [i |-> [addClientCapabilities(
                         [i EXCEPT !.created = mcpClient,
                                   !.inits = Put(@, mcpClient, 1)],
                         mcpClient, result.declared, cfg, answer)
                       EXCEPT !.clients = Put(@, name, mcpClient)],
                err |-> ErrNone]

\* server.DeleteTools: the named tools leave the upstream server
DeleteTools(i, toolNames) ==
  [i EXCEPT !.tools = [n \in DOMAIN @ \ toolNames |-> @[n]]]

\* Interposer.sendChangeNotification: notes are the calls of
\* SendNotificationToClient; when one returns an error a warning is logged
sendChangeNotification(i, notificationType) ==
  [i EXCEPT !.notes = Append(@, notificationType),
            !.warnings = IF i.sendErr THEN @ + 1 ELSE @]

\* RemoveTrackedCapabilities after the registry call: i0 is the Interposer
\* with the registry the call left, removedByType the map it returned
removeFromServer(i0, removedByType) ==
  LET i1 == IF "tool" \in DOMAIN removedByType
                 /\ Cardinality(removedByType["tool"]) > 0
            THEN sendChangeNotification(DeleteTools(i0, removedByType["tool"]),
                                        "toolsChange")
            ELSE i0
      i2 == IF "prompt" \in DOMAIN removedByType
            THEN sendChangeNotification(i1, "promptsChange")
            ELSE i1
  IN IF Cardinality(DOMAIN removedByType) = 0 THEN i0
     ELSE IF "resource" \in DOMAIN removedByType
               \/ "template" \in DOMAIN removedByType
          THEN sendChangeNotification(i2, "resourcesChange")
          ELSE i2

\* the Interposer with the registry that RemoveBackendCapabilities left
withRegistry(i, out) == [i EXCEPT !.registry = out.reg]

\* RemoveTrackedCapabilities, but the tools are left in the upstream server
RemoveTrackedCapabilities_keepsTools(i, backendName) ==
  IF "tool" \in DOMAIN RemoveBackendCapabilities(i.registry, backendName).removedByType
  THEN sendChangeNotification(
         withRegistry(i, RemoveBackendCapabilities(i.registry, backendName)),
         "toolsChange")
  ELSE withRegistry(i, RemoveBackendCapabilities(i.registry, backendName))

\* Interposer.RemoveTrackedCapabilities
RemoveTrackedCapabilities(i, backendName) ==
  removeFromServer(
    withRegistry(i, RemoveBackendCapabilities(i.registry, backendName)),
    RemoveBackendCapabilities(i.registry, backendName).removedByType)

\* Interposer.removeBackend
removeBackend(i, name) ==
  IF name \notin DOMAIN i.clients THEN i
  ELSE RemoveTrackedCapabilities(
         [i EXCEPT !.closed = @ \cup {i.clients[name]},
                   !.clients = Delete(@, name)],
         name)

\* extractRawCapabilityNames, but only the backend name is cut off
extractRawCapabilityNames_keepsSeparator(name, capNames) ==
  {SubSeq(capName, Len(name) + 1, Len(capName)) : capName \in capNames}

\* extractRawCapabilityNames, for the names the registry holds for one type:
\* capName[len(name)+1:]
extractRawCapabilityNames(name, capNames) ==
  {SubSeq(capName, Len(name) + 2, Len(capName)) : capName \in capNames}

\* capabilityChanges: the four flags
Changes(tc, pc, rc, tec) ==
  [toolsChanged |-> tc, promptsChanged |-> pc,
   resourcesChanged |-> rc, templatesChanged |-> tec]

NoChanges == Changes(FALSE, FALSE, FALSE, FALSE)

\* checkCapabilityChanges
checkCapabilityChanges(capsByType) ==
  IF Cardinality(DOMAIN capsByType) > 0
  THEN Changes("tool" \in DOMAIN capsByType, "prompt" \in DOMAIN capsByType,
               "resource" \in DOMAIN capsByType, "template" \in DOMAIN capsByType)
  ELSE NoChanges

\* capabilityChanges.updateChanges
updateChanges(c, d) ==
  Changes(c.toolsChanged \/ d.toolsChanged, c.promptsChanged \/ d.promptsChanged,
          c.resourcesChanged \/ d.resourcesChanged,
          c.templatesChanged \/ d.templatesChanged)

\* prepareNewConfigMap, but the disabled configurations are kept
RECURSIVE prepareNewConfigMap_keepsDisabled(_)
prepareNewConfigMap_keepsDisabled(serverConfigs) ==
  IF Len(serverConfigs) = 0 THEN EmptyMap
  ELSE LET cfg == serverConfigs[Len(serverConfigs)]
           rest == prepareNewConfigMap_keepsDisabled(
                     SubSeq(serverConfigs, 1, Len(serverConfigs) - 1))
       IN Put(rest, cfg.Name, cfg)

\* prepareNewConfigMap: the non-disabled configurations by name, a later
\* one replacing an earlier one of the same name
RECURSIVE prepareNewConfigMap(_)
prepareNewConfigMap(serverConfigs) ==
  IF Len(serverConfigs) = 0 THEN EmptyMap
  ELSE LET cfg == serverConfigs[Len(serverConfigs)]
           rest == prepareNewConfigMap(SubSeq(serverConfigs, 1, Len(serverConfigs) - 1))
       IN IF ~Disabled(cfg) THEN Put(rest, cfg.Name, cfg) ELSE rest

\* Interposer.processRemovedBackend: the Interposer after and the flags
processRemovedBackend(i, name) ==
  [i |-> removeBackend(i, name),
   changes |-> checkCapabilityChanges(GetCapabilitiesForBackend(i.registry, name))]

\* processBackendRestart, but the backend is not added again
processBackendRestart_removesOnly(i, name, newConfig, answer) ==
  [i |-> removeBackend(i, name),
   changes |-> checkCapabilityChanges(GetCapabilitiesForBackend(i.registry, name)),
   err |-> ErrNone]

\* what processBackendRestart and processNewBackend make of the outcome of
\* AddBackend: old are the flags gathered before it (none for a new
\* backend); a failure leaves them, a success adds the flags of what the
\* backend has now
backendAdded(name, old, out) ==
  [i |-> out.i,
   changes |->
     IF out.err # ErrNone THEN old
     ELSE updateChanges(old, checkCapabilityChanges(
                               GetCapabilitiesForBackend(out.i.registry, name))),
   err |-> out.err]

\* Interposer.processBackendRestart
processBackendRestart(i, name, newConfig, answer) ==
  backendAdded(name,
               checkCapabilityChanges(GetCapabilitiesForBackend(i.registry, name)),
               AddBackend(removeBackend(i, name), name, newConfig, answer))

\* Interposer.processNewBackend
processNewBackend(i, name, cfg, answer) ==
  backendAdded(name, NoChanges, AddBackend(i, name, cfg, answer))

\* sendNotifications, but promptsChange is sent whenever any flag is set
sendNotifications_promptsWithAny(i, c) ==
  LET i1 == IF c.toolsChanged THEN sendChangeNotification(i, "toolsChange") ELSE i
      i2 == IF c.toolsChanged \/ c.promptsChanged
                 \/ c.resourcesChanged \/ c.templatesChanged
            THEN sendChangeNotification(i1, "promptsChange") ELSE i1
  IN IF c.resourcesChanged \/ c.templatesChanged
     THEN sendChangeNotification(i2, "resourcesChange")
     ELSE i2

\* Interposer.sendNotifications
sendNotifications(i, c) ==
  LET i1 == IF c.toolsChanged THEN sendChangeNotification(i, "toolsChange") ELSE i
      i2 == IF c.promptsChanged THEN sendChangeNotification(i1, "promptsChange") ELSE i1
  IN IF c.resourcesChanged \/ c.templatesChanged
     THEN sendChangeNotification(i2, "resourcesChange")
     ELSE i2

\* the end of Reconfigure: the notifications for what the run changed
notified(r) == [r EXCEPT !.i = sendNotifications(@, r.changes)]

\* The running state of one Reconfigure call: the Interposer, the
\* currentBackends still marked true, newConfigMap, the change flags, and
\* what the call logged (backends removed, restarted, failed to start).
\* err is what the call returns: nil, whatever happens on the way.
Run(i, serverConfigs) ==
  [i |-> i, current |-> DOMAIN i.clients,
   newConfigMap |-> prepareNewConfigMap(serverConfigs),
   changes |-> NoChanges, removed |-> EmptyMap, restarted |-> {}, failed |-> {},
   err |-> ErrNone]

\* Interposer.processRemovedBackends; order is the order in which the range
\* over the currentBackends map yields the names
\* the run after processRemovedBackend(name) came back with out
backendRemoved(r, name, out) ==
  [r EXCEPT !.i = out.i,
            !.changes = updateChanges(@, out.changes),
            !.removed = Put(@, name, out.changes),
            !.current = @ \ {name}]

\* one round of the loop of processRemovedBackends
removedBackendsRound(r, name) ==
  IF name \in r.current /\ name \notin DOMAIN r.newConfigMap
  THEN backendRemoved(r, name, processRemovedBackend(r.i, name))
  ELSE r

RECURSIVE processRemovedBackends(_, _)
processRemovedBackends(r, order) ==
  IF Len(order) = 0 THEN r
  ELSE processRemovedBackends(removedBackendsRound(r, Head(order)), Tail(order))

\* Interposer.updateExistingBackend: needsFullRestart is always true
updateExistingBackend(i, name, newConfig, answer) ==
  processBackendRestart(i, name, newConfig, answer)

\* Interposer.processUpdatedBackends
\* the run after updateExistingBackend(name) came back with out
backendUpdated(r, name, out) ==
  [r EXCEPT !.i = out.i,
            !.changes = updateChanges(@, out.changes),
            !.restarted = @ \cup {name},
            !.failed = IF out.err # ErrNone THEN @ \cup {name} ELSE @,
            !.current = @ \ {name},
            !.newConfigMap = Delete(@, name)]

\* one round of the loop of processUpdatedBackends
updatedBackendsRound(r, name, answers) ==
  IF name \notin r.current \/ name \notin DOMAIN r.newConfigMap THEN r
  ELSE IF name \notin DOMAIN r.i.clients THEN [r EXCEPT !.current = @ \ {name}]
  ELSE backendUpdated(r, name,
                      updateExistingBackend(r.i, name, r.newConfigMap[name],
                                            answers[name]))

RECURSIVE processUpdatedBackends(_, _, _)
processUpdatedBackends(r, order, answers) ==
  IF Len(order) = 0 THEN r
  ELSE processUpdatedBackends(updatedBackendsRound(r, Head(order), answers),
                              Tail(order), answers)

\* Interposer.processNewBackends; order is the order in which the range over
\* newConfigMap yields the names
\* the run after processNewBackend(name) came back with out
backendStarted(r, name, out) ==
  [r EXCEPT !.i = out.i,
            !.changes = updateChanges(@, out.changes),
            !.failed = IF out.err # ErrNone THEN @ \cup {name} ELSE @]

\* one round of the loop of processNewBackends, but the loop gives up after
\* the first backend that failed to start
newBackendsRound_stopsAfterFailure(r, name, answers) ==
  IF name \notin DOMAIN r.newConfigMap \/ r.failed # {} THEN r
  ELSE backendStarted(r, name,
                      processNewBackend(r.i, name, r.newConfigMap[name],
                                        answers[name]))

\* one round of the loop of processNewBackends
newBackendsRound(r, name, answers) ==
  IF name \notin DOMAIN r.newConfigMap THEN r
  ELSE backendStarted(r, name,
                      processNewBackend(r.i, name, r.newConfigMap[name],
                                        answers[name]))

RECURSIVE processNewBackends(_, _, _)
processNewBackends(r, order, answers) ==
  IF Len(order) = 0 THEN r
  ELSE processNewBackends(newBackendsRound(r, Head(order), answers),
                          Tail(order), answers)

\* Interposer.Reconfigure: the three phases, then the notifications
Reconfigure(i, serverConfigs, answers, order) ==
  notified(
    processNewBackends(
      processUpdatedBackends(
        processRemovedBackends(Run(i, serverConfigs), order),
        order, answers),
      order, answers))

\* Close, but it stops at the first client whose Close fails
Close_stopsAtFailure(i, closeErrs) ==
  LET mine == {i.clients[n] : n \in DOMAIN i.clients}
  IN [i EXCEPT !.closed = @ \cup (IF mine \cap closeErrs = {} THEN mine
                                  ELSE mine \cap closeErrs),
               !.warnings = IF mine \cap closeErrs = {} THEN @ ELSE @ + 1]

\* Interposer.Close: Close is called on the client of every session; the
\* clients of closeErrs answer with an error, which is logged; nil is
\* returned
Close(i, closeErrs) ==
  LET mine == {i.clients[n] : n \in DOMAIN i.clients}
  IN [i EXCEPT !.closed = @ \cup mine,
               !.warnings = @ + Cardinality(mine \cap closeErrs)]

\* ------------------------------------------------------------------------
\* pkg/interposer: UpdateCapabilityConfig, the update of the capabilities
\* of a backend without a restart
\* ------------------------------------------------------------------------

\* ErrBackendNotFound
ErrBackendNotFound == "backend not found"

\* capsByType[capType], nil when the type is not in the map
namesOf(capsByType, capType) ==
  IF capType \in DOMAIN capsByType THEN capsByType[capType] ELSE {}

\* the loop of RemoveCapability calls in processDisabledTools
RECURSIVE RemoveCapabilities(_, _, _)
RemoveCapabilities(r, capType, capNames) ==
  IF capNames = {} THEN r
  ELSE LET capName == CHOOSE n \in capNames : TRUE
       IN RemoveCapabilities(RemoveCapability(r, capType, capName).reg,
                             capType, capNames \ {capName})

\* processDisabledTools: toolsToRemove, the full names "%s.%s" of the
\* current tools that newConfig does not enable
toolsToRemove(name, capsByType, newConfig) ==
  {name \o <<".">> \o toolName :
     toolName \in {t \in extractRawCapabilityNames(name, namesOf(capsByType, "tool")) :
                     ~Enabled(newConfig, CapabilityTypeTool, t)}}

\* processDisabledTools once toolsToRemove is known
disabledToolsRemoved(i, fullNames) ==
  [i |-> DeleteTools([i EXCEPT !.registry = RemoveCapabilities(@, "tool", fullNames)],
                     fullNames),
   toolsChanged |-> fullNames # {}]

\* Interposer.processDisabledTools
processDisabledTools(i, name, capsByType, newConfig) ==
  disabledToolsRemoved(i, toolsToRemove(name, capsByType, newConfig))

\* the items of one answer that newConfig enables and that are not among
\* the current raw names
newlyEnabled(kind, current, newConfig, items) ==
  SelectSeq(items,
            LAMBDA item : /\ Enabled(newConfig, ConfigType(kind), item.Name)
                          /\ item.Name \notin current)

\* the loop of processNewTools, processNewPrompts, processNewResources and
\* processNewTemplates over the items picked
newItemsRegistered(i, name, kind, mcpClient, items) ==
  [i |-> RegisterPage(i, name, kind, items, mcpClient),
   changed |-> Len(items) > 0]

\* processNewTools, processNewPrompts, processNewResources,
\* processNewTemplates: one List request with the empty cursor, answered
\* with r
processNewItems(i, name, kind, mcpClient, current, newConfig, r) ==
  IF r.err THEN [i |-> i, changed |-> FALSE]
  ELSE newItemsRegistered(i, name, kind, mcpClient,
                          newlyEnabled(kind, current, newConfig, r.items))

\* the flag of capabilityChanges that belongs to a kind
FlagOf(kind) ==
  CASE kind = "tool" -> "toolsChanged"
    [] kind = "prompt" -> "promptsChanged"
    [] kind = "resource" -> "resourcesChanged"
    [] kind = "template" -> "templatesChanged"

\* the update s after a processNew... call came back with out
reinitDone(s, kind, out) ==
  [i |-> out.i, changes |-> [s.changes EXCEPT ![FlagOf(kind)] = @ \/ out.changed]]

\* handleToolReinit, handlePromptReinit, handleResourceReinit for one kind,
\* when the backend declares the capability; the List request is counted
reinitKind(s, name, kind, mcpClient, capsByType, newConfig, declared, answer) ==
  IF DeclaredBy(kind) \notin declared THEN s
  ELSE reinitDone(s, kind,
         processNewItems([s.i EXCEPT !.rpcs = @ + 1], name, kind, mcpClient,
                         extractRawCapabilityNames(name, namesOf(capsByType, kind)),
                         newConfig, ListPage(name, kind, 0, answer)))

\* handleReinitCapabilities after Initialize has answered
reinitKinds(s, name, mcpClient, capsByType, newConfig, result, answer) ==
  IF result.err THEN s
  ELSE reinitKind(
         reinitKind(
           reinitKind(
             reinitKind(s, name, "tool", mcpClient, capsByType, newConfig,
                        result.declared, answer),
             name, "prompt", mcpClient, capsByType, newConfig,
             result.declared, answer),
           name, "resource", mcpClient, capsByType, newConfig,
           result.declared, answer),
         name, "template", mcpClient, capsByType, newConfig,
         result.declared, answer)

\* Interposer.handleReinitCapabilities: the client that is already
\* initialized is sent Initialize once more
handleReinitCapabilities(s, name, mcpClient, capsByType, newConfig, answer) ==
  reinitKinds([s EXCEPT !.i.inits = Put(@, mcpClient, @[mcpClient] + 1),
                        !.i.rpcs = @ + 1],
              name, mcpClient, capsByType, newConfig,
              Initialize(newConfig, answer), answer)

\* whether UpdateCapabilityConfig re-initializes
needsReinit(oldConfig, newConfig) ==
  \/ ~CompareCapability(oldConfig.Enable, newConfig.Enable)
  \/ ~CompareCapability(oldConfig.Disable, newConfig.Disable)

\* UpdateCapabilityConfig after processDisabledTools came back with out
toolsDisabled(out, name, mcpClient, capsByType, oldConfig, newConfig, answer) ==
  IF needsReinit(oldConfig, newConfig)
  THEN handleReinitCapabilities(
         [i |-> out.i, changes |-> Changes(out.toolsChanged, FALSE, FALSE, FALSE)],
         name, mcpClient, capsByType, newConfig, answer)
  ELSE [i |-> out.i, changes |-> Changes(out.toolsChanged, FALSE, FALSE, FALSE)]

\* the end of UpdateCapabilityConfig: the notifications, and nil
updated(s) == [i |-> sendNotifications(s.i, s.changes), err |-> ErrNone]

\* UpdateCapabilityConfig for a backend that is there and stays enabled,
\* capsByType being what the registry holds for it
updateCapabilities(i, name, capsByType, oldConfig, newConfig, answer) ==
  updated(toolsDisabled(processDisabledTools(i, name, capsByType, newConfig),
                        name, i.clients[name], capsByType,
                        oldConfig, newConfig, answer))

\* UpdateCapabilityConfig, but a Disabled new configuration is looked at
\* before the session is looked up
UpdateCapabilityConfig_disabledFirst(i, name, oldConfig, newConfig, answer) ==
  IF Disabled(newConfig) THEN [i |-> removeBackend(i, name), err |-> ErrNone]
  ELSE IF name \notin DOMAIN i.clients THEN [i |-> i, err |-> ErrBackendNotFound]
  ELSE updateCapabilities(i, name, GetCapabilitiesForBackend(i.registry, name),
                          oldConfig, newConfig, answer)

\* Interposer.UpdateCapabilityConfig: the Interposer after, and the error
UpdateCapabilityConfig(i, name, oldConfig, newConfig, answer) ==
  IF name \notin DOMAIN i.clients THEN [i |-> i, err |-> ErrBackendNotFound]
  ELSE IF Disabled(newConfig) THEN [i |-> removeBackend(i, name), err |-> ErrNone]
  ELSE updateCapabilities(i, name, GetCapabilitiesForBackend(i.registry, name),
                          oldConfig, newConfig, answer)

\* ------------------------------------------------------------------------
\* The upstream server: a request of a downstream client is looked up and
\* handed to the handler the item was registered with
\* ------------------------------------------------------------------------

NotFound == [found |-> FALSE, sent |-> <<>>]

\* tools/call
CallTool(i, request) ==
  IF request.target \in DOMAIN i.tools
  THEN [found |-> TRUE, sent |-> <<handleTool(i.tools[request.target].handler, request)>>]
  ELSE NotFound

\* prompts/get
GetPrompt(i, request) ==
  IF request.target \in DOMAIN i.prompts
  THEN [found |-> TRUE,
        sent |-> <<handlePrompt(i.prompts[request.target].handler, request)>>]
  ELSE NotFound

\* a raw URI template stands for the URIs that start with it
MatchesTemplate(template, uri) == HasPrefix(uri, template)

\* resources/read: the answers it may give (an exact URI first, else any
\* template that matches)
ReadResource(i, request) ==
  IF request.target \in DOMAIN i.resources
  THEN {[found |-> TRUE,
         sent |-> <<handleResource(i.resources[request.target].handler, request)>>]}
  ELSE LET matching == {t \in DOMAIN i.templates : MatchesTemplate(t, request.target)}
       IN IF matching = {} THEN {NotFound}
          ELSE {[found |-> TRUE,
                 sent |-> <<handleResource(i.templates[t].handler, request)>>] :
                t \in matching}

\* the method of the requests for a kind of item
Method(kind) ==
  CASE kind = "tool" -> "tools/call"
    [] kind = "prompt" -> "prompts/get"
    [] kind \in {"resource", "template"} -> "resources/read"

\* the answers the upstream server may give to a request of a kind
Upstream(i, kind, request) ==
  CASE kind = "tool" -> {CallTool(i, request)}
    [] kind = "prompt" -> {GetPrompt(i, request)}
    [] kind \in {"resource", "template"} -> ReadResource(i, request)

\* an error is the chain of its messages, outermost first; nil is empty
Nil == <<>>

\* fmt.Errorf(prefix + ": %w", err)
Errorf(prefix, err) == <<prefix>> \o err

\* the message the handler of a kind puts in front of a backend's error
FailedTo(kind) ==
  CASE kind = "tool" -> "failed to call tool"
    [] kind = "prompt" -> "failed to read prompt"
    [] kind \in {"resource", "template"} -> "failed to read resource"

\* what the closure made by handleTool, handlePrompt or handleResource
\* returns once the backend client has answered with reply
returned(kind, reply) ==
  IF reply.err # Nil
  THEN [result |-> <<>>, err |-> Errorf(FailedTo(kind), reply.err)]
  ELSE [result |-> reply.result, err |-> Nil]

\* the requests a handler sends, but a failed request is sent once more
requests_retried(sent, reply) ==
  IF reply.err # Nil THEN sent \o sent ELSE sent

\* the requests a handler sends to its client for one upstream call: the
\* one request, whatever the reply
requests(sent, reply) == sent

\* no call of transform yet
NoRewrite ==
  [op |-> "none", name |-> <<>>, kind |-> "", item |-> Item(<<>>, <<>>),
   out |-> Item(<<>>, <<>>)]

\* items.go at rest, for the specifications that do not call it on its own
ItemsIdle == rewritten = NoRewrite

\* the goroutines that call the registry at the same time
Procs == {1, 2}

\* a sync.RWMutex that nobody holds (writer 0 is no writer)
NoLock == [writer |-> 0, readers |-> {}]

\* a goroutine that is in no registry method
Idle ==
  [op |-> "none", at |-> "idle", backend |-> <<>>, capName |-> <<>>,
   result |-> [backend |-> <<>>, existed |-> FALSE]]

\* no Watcher yet: its fsnotify watcher is not open, watchLoop is not
\* running, debounceTimer is nil (0; a pending timer is its deadline)
NoWatcher == [open |-> FALSE, looping |-> FALSE, debounceTimer |-> 0]

\* the owner of the Watcher before it makes one: the clock at 0, the context
\* not cancelled, a configuration file that loads, no Close yet (closedAt
\* is the time of the first Close, -1 before it)
NoEnv ==
  [owner |-> "main", at |-> "setup", clock |-> 0, ctxDone |-> FALSE,
   fileLoads |-> TRUE, closedAt |-> -1]

\* no goroutine runs an operation of the Interposer, Interposer.mu is free
Unlocked == [writer |-> 0, readers |-> {}]

NoCall ==
  [op |-> "none", todo |-> <<>>, configs |-> <<>>, current |-> {}, wanted |-> {},
   name |-> <<>>, mcpClient |-> 0, existed |-> FALSE, doing |-> {},
   locked |-> FALSE, changes |-> NoChanges, failed |-> FALSE]

CallsIdle ==
  /\ imu = Unlocked
  /\ calls = [g \in {1, 2} |-> NoCall]

WatchIdle ==
  /\ cw = NoWatcher
  /\ events = <<>>
  /\ env = NoEnv
  /\ handled = <<>>
  /\ reloads = <<>>

\* the registry with nobody in it
LocksIdle ==
  /\ mu = NoLock
  /\ threads = [p \in Procs |-> Idle]

\* ------------------------------------------------------------------------
\* The policy harness: every configuration over two types and two names
\* ------------------------------------------------------------------------

PolicyTypes == {CapabilityTypeTool, CapabilityTypePrompt}
QueryTypes == {CapabilityTypeTool, CapabilityTypePrompt, CapabilityTypeResource}
PolicyNames == {X, Y}

NameLists == UNION {[1..k -> PolicyNames] : k \in 0..MaxListLen}
CapMaps == UNION {[D -> NameLists] : D \in SUBSET PolicyTypes}

CapabilityValues ==
  {NoCapability, unmarshalBool(TRUE), unmarshalBool(FALSE)}
    \cup {unmarshalCapMap(m) : m \in CapMaps}
    \cup {[present |-> TRUE, All |-> TRUE, mapNil |-> FALSE,
           Capabilities |-> [t \in {CapabilityTypeTool} |-> <<X>>]]}

Servers == [Name : {A}, Enable : CapabilityValues, Disable : CapabilityValues]

NoVerdict ==
  [op |-> "none", type |-> "", name |-> <<>>, result |-> FALSE,
   other |-> NoCapability]

\* the harness at rest, for the specifications that do not use it
PolicyIdle ==
  /\ server = [Name |-> A, Enable |-> NoCapability, Disable |-> NoCapability]
  /\ verdict = NoVerdict

InitPolicy ==
  /\ server \in Servers
  /\ verdict = NoVerdict
  /\ NewInterposer
  /\ ItemsIdle
  /\ LocksIdle
  /\ WatchIdle
  /\ CallsIdle

\* a call of server.Disabled()
CallDisabled ==
  /\ verdict' = [NoVerdict EXCEPT !.op = "Disabled",
                                  !.result = Disabled(server)]
  /\ UNCHANGED <<server, registryVars, engineVars, itemVars, lockVars, watchVars, callVars>>

\* a call of server.Enabled(capability, name)
CallEnabled ==
  \E capability \in QueryTypes, name \in PolicyNames :
    /\ verdict' = [NoVerdict EXCEPT !.op = "Enabled",
                                    !.type = capability,
                                    !.name = name,
                                    !.result = Enabled(server, capability, name)]
    /\ UNCHANGED <<server, registryVars, engineVars, itemVars, lockVars, watchVars, callVars>>

NextPolicy == CallDisabled \/ CallEnabled

SpecPolicy == InitPolicy /\ [][NextPolicy]_vars

\* CompareCapability on its own: the server and the capability that one of
\* its policies is compared with are drawn at the start
InitCompare ==
  /\ server \in Servers
  /\ \E other \in CapabilityValues : verdict = [NoVerdict EXCEPT !.other = other]
  /\ NewInterposer
  /\ ItemsIdle
  /\ LocksIdle
  /\ WatchIdle
  /\ CallsIdle

\* a call of CompareCapability(server.Enable, other)
CallCompareEnable ==
  /\ verdict' = [verdict EXCEPT
                   !.op = "CompareCapability",
                   !.type = "enable",
                   !.result = CompareCapability(server.Enable, verdict.other)]
  /\ UNCHANGED <<server, registryVars, engineVars, itemVars, lockVars, watchVars, callVars>>

\* a call of CompareCapability(server.Disable, other)
CallCompareDisable ==
  /\ verdict' = [verdict EXCEPT
                   !.op = "CompareCapability",
                   !.type = "disable",
                   !.result = CompareCapability(server.Disable, verdict.other)]
  /\ UNCHANGED <<server, registryVars, engineVars, itemVars, lockVars, watchVars, callVars>>

NextCompare == CallCompareEnable \/ CallCompareDisable

SpecCompare == InitCompare /\ [][NextCompare]_vars

\* ------------------------------------------------------------------------
\* The registry on its own: any sequence of calls of its methods
\* ------------------------------------------------------------------------

RegBackends == {A, B}
RegTypes == {"tool", "prompt"}
RegNames == {<<"a", "-", "x">>, <<"b", "-", "x">>}
RegKeys == {CapabilityKey(t, n) : t \in RegTypes, n \in RegNames}

InitRegistry ==
  /\ NewInterposer
  /\ PolicyIdle
  /\ ItemsIdle
  /\ LocksIdle
  /\ WatchIdle
  /\ CallsIdle

CallAddCapability ==
  \E backend \in RegBackends, capType \in RegTypes, capName \in RegNames :
    LET r == AddCapability(Registry, backend, capType, capName)
    IN /\ capabilities' = r.capabilities
       /\ backendCaps' = r.backendCaps
       /\ regResult' = [NoRegResult EXCEPT !.op = "AddCapability",
                                           !.capType = capType,
                                           !.capName = capName,
                                           !.backend = backend]
       /\ UNCHANGED <<policyVars, engineVars, itemVars, lockVars, watchVars, callVars>>

CallRemoveCapability ==
  \E capType \in RegTypes, capName \in RegNames :
    LET out == RemoveCapability(Registry, capType, capName)
    IN /\ capabilities' = out.reg.capabilities
       /\ backendCaps' = out.reg.backendCaps
       /\ regResult' = [NoRegResult EXCEPT !.op = "RemoveCapability",
                                           !.capType = capType,
                                           !.capName = capName,
                                           !.backend = out.backend,
                                           !.existed = out.existed]
       /\ UNCHANGED <<policyVars, engineVars, itemVars, lockVars, watchVars, callVars>>

CallRemoveBackendCapabilities ==
  \E backend \in RegBackends :
    LET out == RemoveBackendCapabilities(Registry, backend)
    IN /\ capabilities' = out.reg.capabilities
       /\ backendCaps' = out.reg.backendCaps
       /\ regResult' = [NoRegResult EXCEPT !.op = "RemoveBackendCapabilities",
                                           !.backend = backend,
                                           !.byType = out.removedByType]
       /\ UNCHANGED <<policyVars, engineVars, itemVars, lockVars, watchVars, callVars>>

\* a call of GetBackendForCapability(capType, capName)
CallGetBackendForCapability ==
  \E capType \in RegTypes, capName \in RegNames :
    \E out \in {GetBackendForCapability(Registry, capType, capName)} :
      /\ regResult' = [NoRegResult EXCEPT !.op = "GetBackendForCapability",
                                          !.capType = capType,
                                          !.capName = capName,
                                          !.backend = out.backend,
                                          !.existed = out.existed]
      /\ UNCHANGED <<capabilities, backendCaps, policyVars, engineVars, itemVars, lockVars, watchVars, callVars>>

\* a call of GetCapabilitiesForBackend(backend)
CallGetCapabilitiesForBackend ==
  \E backend \in RegBackends :
    /\ regResult' = [NoRegResult EXCEPT
                       !.op = "GetCapabilitiesForBackend",
                       !.backend = backend,
                       !.byType = GetCapabilitiesForBackend(Registry, backend)]
    /\ UNCHANGED <<capabilities, backendCaps, policyVars, engineVars, itemVars, lockVars, watchVars, callVars>>

\* a call of GetAllBackends()
CallGetAllBackends ==
  /\ regResult' = [NoRegResult EXCEPT !.op = "GetAllBackends",
                                      !.backends = GetAllBackends(Registry)]
  /\ UNCHANGED <<capabilities, backendCaps, policyVars, engineVars, itemVars, lockVars, watchVars, callVars>>

NextRegistry ==
  \/ CallAddCapability
  \/ CallRemoveCapability
  \/ CallRemoveBackendCapabilities
  \/ CallGetBackendForCapability
  \/ CallGetCapabilitiesForBackend
  \/ CallGetAllBackends

SpecRegistry == InitRegistry /\ [][NextRegistry]_vars

\* ------------------------------------------------------------------------
\* The registry under concurrent callers: every method takes mu, touches
\* the two maps one after the other, and releases mu when it returns
\* ------------------------------------------------------------------------

\* the methods that take mu.Lock and those that take mu.RLock
WriterOps == {"AddCapability", "RemoveCapability", "RemoveBackendCapabilities"}
ReaderOps == {"GetBackendForCapability", "GetCapabilitiesForBackend"}

\* the one key the concurrent callers work on
LockType == "tool"
LockName == A \o <<"-">> \o X

\* sync.RWMutex: Lock waits until nobody holds the mutex
CanLock(m) == m.writer = 0 /\ m.readers = {}

\* RLock, but it does not wait for a writer
CanRLock_ignoresWriter(m) == TRUE

\* sync.RWMutex: RLock waits until no writer holds the mutex
CanRLock(m) == m.writer = 0

InitLocks ==
  /\ NewInterposer
  /\ PolicyIdle
  /\ ItemsIdle
  /\ LocksIdle
  /\ WatchIdle
  /\ CallsIdle

\* r.mu.Lock() at the top of AddCapability, RemoveCapability or
\* RemoveBackendCapabilities
Lock(p) ==
  /\ threads[p].at = "idle"
  /\ CanLock(mu)
  /\ mu' = [mu EXCEPT !.writer = p]
  /\ \E op \in WriterOps, backend \in RegBackends :
       threads' =
         [threads EXCEPT ![p] =
            [Idle EXCEPT !.op = op,
                         !.at = "locked",
                         !.backend = IF op = "RemoveCapability" THEN <<>> ELSE backend,
                         !.capName = IF op = "RemoveBackendCapabilities"
                                     THEN <<>> ELSE LockName]]
  /\ UNCHANGED <<capabilities, backendCaps, regResult, policyVars, engineVars, itemVars, watchVars, callVars>>

\* the first half of a mutation: the capabilities map.  RemoveCapability
\* and RemoveBackendCapabilities return here when there is nothing to remove.
WriteCapabilities(p) ==
  /\ threads[p].at = "locked"
  /\ threads[p].op \in WriterOps
  /\ \/ /\ threads[p].op = "AddCapability"
        /\ capabilities' =
             AddCapability(Registry, threads[p].backend, LockType,
                           threads[p].capName).capabilities
        /\ threads' = [threads EXCEPT ![p].at = "half"]
     \/ /\ threads[p].op = "RemoveCapability"
        /\ \E found \in {GetBackendForCapability(Registry, LockType,
                                                 threads[p].capName)} :
             /\ capabilities' =
                  RemoveCapability(Registry, LockType,
                                   threads[p].capName).reg.capabilities
             /\ threads' = [threads EXCEPT
                              ![p].at = IF found.existed THEN "half" ELSE "done",
                              ![p].result = found]
     \/ /\ threads[p].op = "RemoveBackendCapabilities"
        /\ capabilities' =
             RemoveBackendCapabilities(Registry, threads[p].backend).reg.capabilities
        /\ threads' = [threads EXCEPT
                         ![p].at = IF threads[p].backend \in DOMAIN backendCaps
                                   THEN "half" ELSE "done"]
  /\ UNCHANGED <<mu, backendCaps, regResult, policyVars, engineVars, itemVars, watchVars, callVars>>

\* the second half of a mutation: the backendCaps map
WriteBackendCaps(p) ==
  /\ threads[p].at = "half"
  /\ backendCaps' =
       CASE threads[p].op = "AddCapability" ->
              AddCapability(Registry, threads[p].backend, LockType,
                            threads[p].capName).backendCaps
         [] threads[p].op = "RemoveCapability" ->
              IF threads[p].result.backend \in DOMAIN backendCaps
              THEN Put(backendCaps, threads[p].result.backend,
                       backendCaps[threads[p].result.backend]
                         \ {CapabilityKey(LockType, threads[p].capName)})
              ELSE backendCaps
         [] threads[p].op = "RemoveBackendCapabilities" ->
              Delete(backendCaps, threads[p].backend)
  /\ threads' = [threads EXCEPT ![p].at = "done"]
  /\ UNCHANGED <<mu, capabilities, regResult, policyVars, engineVars, itemVars, watchVars, callVars>>

\* the deferred r.mu.Unlock()
Unlock(p) ==
  /\ threads[p].at = "done"
  /\ threads[p].op \in WriterOps
  /\ mu' = [mu EXCEPT !.writer = 0]
  /\ threads' = [threads EXCEPT ![p] = Idle]
  /\ UNCHANGED <<capabilities, backendCaps, regResult, policyVars, engineVars, itemVars, watchVars, callVars>>

\* r.mu.RLock() at the top of GetBackendForCapability or
\* GetCapabilitiesForBackend
RLock(p) ==
  /\ threads[p].at = "idle"
  /\ CanRLock(mu)
  /\ mu' = [mu EXCEPT !.readers = @ \cup {p}]
  /\ \E op \in ReaderOps, backend \in RegBackends :
       threads' =
         [threads EXCEPT ![p] =
            [Idle EXCEPT !.op = op,
                         !.at = "locked",
                         !.backend = IF op = "GetBackendForCapability"
                                     THEN <<>> ELSE backend,
                         !.capName = IF op = "GetBackendForCapability"
                                     THEN LockName ELSE <<>>]]
  /\ UNCHANGED <<capabilities, backendCaps, regResult, policyVars, engineVars, itemVars, watchVars, callVars>>

\* the query reads its map and has its result
Read(p) ==
  /\ threads[p].at = "locked"
  /\ threads[p].op \in ReaderOps
  /\ threads' =
       [threads EXCEPT
          ![p].at = "done",
          ![p].result =
             IF threads[p].op = "GetBackendForCapability"
             THEN GetBackendForCapability(Registry, LockType, threads[p].capName)
             ELSE [backend |-> threads[p].backend,
                   existed |-> GetCapabilitiesForBackend(
                                 Registry, threads[p].backend) # EmptyMap]]
  /\ UNCHANGED <<mu, capabilities, backendCaps, regResult, policyVars, engineVars, itemVars, watchVars, callVars>>

\* the deferred r.mu.RUnlock()
RUnlock(p) ==
  /\ threads[p].at = "done"
  /\ threads[p].op \in ReaderOps
  /\ mu' = [mu EXCEPT !.readers = @ \ {p}]
  /\ threads' = [threads EXCEPT ![p] = Idle]
  /\ UNCHANGED <<capabilities, backendCaps, regResult, policyVars, engineVars, itemVars, watchVars, callVars>>

NextLocks ==
  \E p \in Procs :
    \/ Lock(p)
    \/ WriteCapabilities(p)
    \/ WriteBackendCaps(p)
    \/ Unlock(p)
    \/ RLock(p)
    \/ Read(p)
    \/ RUnlock(p)

SpecLocks == InitLocks /\ [][NextLocks]_vars

\* ------------------------------------------------------------------------
\* The interposer at work: backends are added and the configuration is
\* reloaded
\* ------------------------------------------------------------------------

PolicyNone == [Enable |-> NoCapability, Disable |-> NoCapability]
PolicyDisabled == [Enable |-> NoCapability, Disable |-> unmarshalBool(TRUE)]
PolicyOnlyToolX ==
  [Enable |-> unmarshalCapMap([t \in {CapabilityTypeTool} |-> <<X>>]),
   Disable |-> NoCapability]

\* the policies a backend is configured with: none, `disable: true`, and for
\* the backend that has more than one tool, `enable: {tools: [x]}`
PoliciesOf(backend) ==
  IF backend = A THEN {PolicyNone, PolicyDisabled, PolicyOnlyToolX}
  ELSE {PolicyNone, PolicyDisabled}

EngineServers ==
  UNION {{[Name |-> n, Enable |-> p.Enable, Disable |-> p.Disable] :
            p \in PoliciesOf(n)} : n \in BackendNames}

\* the place of a backend name in the alphabet
Rank(name) == IF name = A THEN 1 ELSE 2

\* the configuration lists a reload may bring: at most one entry for a
\* name, the entries in the order of their names
ConfigLists ==
  {c \in UNION {[1..k -> EngineServers] : k \in 0..MaxConfigs} :
     \A x, y \in DOMAIN c : x < y => Rank(c[x].Name) < Rank(c[y].Name)}

\* the orders in which a range over a map of backend names may run
Orders == {<<A, B>>, <<B, A>>}

\* The orders that can make a difference to Reconfigure(serverConfigs): the
\* order of a loop matters only if the loop meets two backends.
OrdersFor(i, serverConfigs) ==
  LET current == DOMAIN i.clients
      wanted == DOMAIN prepareNewConfigMap(serverConfigs)
  IN IF \/ Cardinality(current \ wanted) > 1
        \/ Cardinality(current \cap wanted) > 1
        \/ Cardinality(wanted \ current) > 1
     THEN Orders
     ELSE {<<A, B>>}

\* how the backends that a Reconfigure starts answer
AnswerMaps(names) == [names -> {a \in StartAnswers : a.start # "initNil"}]

\* how many clients get initialized when the backends answer like this
Starting(answers) ==
  Cardinality({n \in DOMAIN answers : answers[n].start = "ok"})

\* every item a backend has, over all its pages
AllItems(backend, kind) ==
  UNION {{Pages(backend, kind)[p][k] : k \in DOMAIN Pages(backend, kind)[p]} :
           p \in DOMAIN Pages(backend, kind)}

\* the name or URI under which the upstream server keeps an item
FacadeKey(kind, item) == IF kind \in {"tool", "prompt"} THEN item.Name ELSE item.URI

\* a URI that a URI template stands for
Expand(template) == template \o <<"v">>

\* the arguments of an upstream request
Args == {"p", "q"}

\* the state after an operation that leaves the Interposer value i
Commit(i) ==
  /\ clients' = i.clients
  /\ capabilities' = i.registry.capabilities
  /\ backendCaps' = i.registry.backendCaps
  /\ srvTools' = i.tools
  /\ srvPrompts' = i.prompts
  /\ srvResources' = i.resources
  /\ srvTemplates' = i.templates
  /\ created' = i.created
  /\ closed' = i.closed
  /\ inits' = i.inits
  /\ notes' = i.notes

Init ==
  /\ NewInterposer
  /\ PolicyIdle
  /\ ItemsIdle
  /\ LocksIdle
  /\ WatchIdle
  /\ CallsIdle

\* a call of AddBackend(cfg.Name, cfg), as main calls it for the configured
\* servers before the watcher starts
AddBackendAnswered(answers) ==
  /\ lastOp.op \in {"none", "AddBackend"}
  /\ \E cfg \in EngineServers, answer \in answers :
       \E out \in {AddBackend(Interposer, cfg.Name, cfg, answer)} :
          /\ created + Starting([n \in {cfg.Name} |-> answer]) <= MaxClients
          /\ Commit(out.i)
          /\ lastOp' = [NoOp EXCEPT !.op = "AddBackend",
                                    !.name = cfg.Name,
                                    !.configs = <<cfg>>,
                                    !.err = out.err,
                                    !.answer = answer,
                                    !.warnings = out.i.warnings,
                                    !.listed = out.i.listed]
          /\ UNCHANGED <<policyVars, regResult, itemVars, lockVars, watchVars, callVars>>

CallAddBackend == AddBackendAnswered(StartAnswers)

\* a call of Reconfigure(serverConfigs), as the configuration watcher calls
\* it.  repeat: the call before was a Reconfigure of the same list in which
\* the same backends failed to start.
CallReconfigure ==
  /\ lastOp.op # "Close"
  /\ \E serverConfigs \in ConfigLists, sendErr \in BOOLEAN :
       \E order \in OrdersFor(Interposer, serverConfigs),
          answers \in AnswerMaps(DOMAIN prepareNewConfigMap(serverConfigs)) :
         \E out \in {Reconfigure([Interposer EXCEPT !.sendErr = sendErr],
                                 serverConfigs, answers, order)} :
            /\ created + Starting(answers) <= MaxClients
            /\ Commit(out.i)
            /\ lastOp' = [NoOp EXCEPT !.op = "Reconfigure",
                                      !.configs = serverConfigs,
                                      !.err = out.err,
                                      !.sendErr = sendErr,
                                      !.warnings = out.i.warnings,
                                      !.failed = out.failed,
                                      !.removed = out.removed,
                                      !.restarted = out.restarted,
                                      !.repeat = /\ lastOp.op = "Reconfigure"
                                                 /\ lastOp.configs = serverConfigs
                                                 /\ lastOp.failed = out.failed]
            /\ UNCHANGED <<policyVars, regResult, itemVars, lockVars, watchVars, callVars>>

\* a call of Close by the owner of the Interposer
CallClose ==
  /\ lastOp.op # "Close"
  /\ \E closeErrs \in SUBSET {clients[n] : n \in DOMAIN clients} :
       \E out \in {Close(Interposer, closeErrs)} :
         /\ Commit(out)
         /\ lastOp' = [NoOp EXCEPT !.op = "Close",
                                   !.closeErrs = closeErrs,
                                   !.warnings = out.warnings]
  /\ UNCHANGED <<policyVars, regResult, itemVars, lockVars, watchVars, callVars>>

Next ==
  \/ CallAddBackend
  \/ CallReconfigure
  \/ CallClose

Spec == Init /\ [][Next]_vars

\* ------------------------------------------------------------------------
\* UpdateCapabilityConfig at work: the backends are added, then capability
\* updates are applied to them
\* ------------------------------------------------------------------------

\* how often one client is sent Initialize at most
MaxInits == 2

\* how a backend answers during an update: all goes well, the Initialize
\* request fails, or the List request for the tools fails
UpdateAnswers ==
  {AnswerOk,
   [start |-> "initErr", failKind |-> "none", failPage |-> 0],
   [start |-> "ok", failKind |-> "tool", failPage |-> 1]}

\* a call of UpdateCapabilityConfig(name, oldConfig, newConfig)
CallUpdateCapabilityConfig ==
  /\ lastOp.op \in {"AddBackend", "UpdateCapabilityConfig"}
  /\ \E name \in BackendNames, answer \in UpdateAnswers :
       \E oldConfig \in {s \in EngineServers : s.Name = name},
          newConfig \in {s \in EngineServers : s.Name = name} :
         \E out \in {UpdateCapabilityConfig(Interposer, name, oldConfig,
                                            newConfig, answer)} :
            /\ name \in DOMAIN clients => inits[clients[name]] < MaxInits
            /\ Commit(out.i)
            /\ lastOp' = [NoOp EXCEPT !.op = "UpdateCapabilityConfig",
                                      !.name = name,
                                      !.configs = <<oldConfig, newConfig>>,
                                      !.err = out.err,
                                      !.rpcs = out.i.rpcs,
                                      !.answer = answer]
            /\ UNCHANGED <<policyVars, regResult, itemVars, lockVars, watchVars, callVars>>

NextUpdate ==
  \/ CallAddBackend
  \/ CallUpdateCapabilityConfig

SpecUpdate == Init /\ [][NextUpdate]_vars

\* ------------------------------------------------------------------------
\* Enumeration: the backends are added, and a List request may fail
\* ------------------------------------------------------------------------

\* the answers to a start in which one List request fails: the request of
\* one kind for one page
ListFailures ==
  {[start |-> "ok", failKind |-> kind, failPage |-> page] :
     kind \in Kinds, page \in 1..MaxPages}

\* a call of AddBackend(cfg.Name, cfg) to a backend one of whose List
\* requests fails
CallAddBackendListFails == AddBackendAnswered(ListFailures)

NextEnumerate ==
  \/ CallAddBackend
  \/ CallAddBackendListFails

SpecEnumerate == Init /\ [][NextEnumerate]_vars

\* ------------------------------------------------------------------------
\* Requests from upstream: the backends are added, then upstream clients
\* call tools, get prompts and read resources
\* ------------------------------------------------------------------------

\* how a backend client answers a forwarded request: a result, or an error
Replies ==
  {[result |-> <<"ok">>, err |-> Nil],
   [result |-> <<>>, err |-> <<"backend error">>]}

\* what an upstream client may ask for: what the upstream server shows, a
\* URI that a shown template stands for, and a name it does not show
Targets(kind) ==
  CASE kind = "tool" -> DOMAIN srvTools \cup {<<"z">>}
    [] kind = "prompt" -> DOMAIN srvPrompts \cup {<<"z">>}
    [] kind = "resource" -> DOMAIN srvResources \cup {<<"z">>}
    [] kind = "template" -> {Expand(k) : k \in DOMAIN srvTemplates}

\* a request of an upstream client, served by the upstream server and, if
\* the target is shown, by the handler registered for it
CallUpstream ==
  /\ lastOp.op \in {"AddBackend", "upstream"}
  /\ \E kind \in Kinds, args \in Args, reply \in Replies :
       \E target \in Targets(kind) :
         \E u \in Upstream(Interposer, kind, [target |-> target, args |-> args]) :
           lastOp' =
             [NoOp EXCEPT
                !.op = "upstream",
                !.call =
                  [kind |-> kind, target |-> target, args |-> args,
                   reply |-> IF u.found THEN reply ELSE <<>>,
                   found |-> u.found,
                   sent |-> IF u.found THEN requests(u.sent, reply) ELSE <<>>,
                   result |-> IF u.found THEN returned(kind, reply).result ELSE <<>>,
                   err |-> IF u.found THEN returned(kind, reply).err ELSE Nil,
                   repeat |-> /\ lastOp.op = "upstream"
                              /\ lastOp.call.kind = kind
                              /\ lastOp.call.target = target
                              /\ lastOp.call.args = args]]
  /\ UNCHANGED <<clients, srvTools, srvPrompts, srvResources, srvTemplates,
                 created, closed, inits, notes>>
  /\ UNCHANGED <<policyVars, registryVars, itemVars, lockVars, watchVars, callVars>>

NextForward ==
  \/ CallAddBackend
  \/ CallUpstream

SpecForward == Init /\ [][NextForward]_vars

\* ------------------------------------------------------------------------
\* items.go on its own: transform is called on any item of any backend, and
\* what it made is then taken apart again
\* ------------------------------------------------------------------------

\* the characters of a name: two letters and the three separators
Chars == {"a", "b", "-", ".", "+"}

\* the strings of at most n characters
Strings(n) == UNION {[1..k -> Chars] : k \in 0..n}

\* the backend names and the raw items transform is called with
ItemBackendNames == Strings(MaxNameLen)
RawItems(kind) ==
  IF kind \in {"tool", "prompt"}
  THEN {Item(n, <<>>) : n \in Strings(MaxRawLen)}
  ELSE {Item(n, u) : n, u \in Strings(MaxRawLen)}

InitItems ==
  /\ NewInterposer
  /\ PolicyIdle
  /\ ItemsIdle
  /\ LocksIdle
  /\ WatchIdle
  /\ CallsIdle

\* a call of transform(name, item)
CallTransform ==
  /\ rewritten.op \in {"none", "transform"}
  /\ \E name \in ItemBackendNames, kind \in Kinds :
       \E item \in RawItems(kind) :
         rewritten' = [NoRewrite EXCEPT !.op = "transform",
                                        !.name = name,
                                        !.kind = kind,
                                        !.item = item,
                                        !.out = transform(name, kind, item)]
  /\ UNCHANGED <<policyVars, registryVars, engineVars, lockVars, watchVars, callVars>>

\* extractRawCapabilityNames on the name under which the item was registered
CallExtractRawCapabilityNames ==
  /\ rewritten.op = "transform"
  /\ rewritten' =
       [rewritten EXCEPT
          !.op = "extractRawCapabilityNames",
          !.out = Item(CHOOSE raw \in extractRawCapabilityNames(
                                        rewritten.name, {rewritten.out.Name}) : TRUE,
                       <<>>)]
  /\ UNCHANGED <<policyVars, registryVars, engineVars, lockVars, watchVars, callVars>>

\* a read of a URI that the rewritten template stands for, through the
\* handler handleResource made for the template
CallReadTemplate ==
  /\ rewritten.op = "transform"
  /\ rewritten.kind = "template"
  /\ rewritten' =
       [rewritten EXCEPT
          !.op = "handleResource",
          !.out = Item(<<>>,
                       handleResource(
                         Handler("template", rewritten.name, rewritten.item, 1),
                         [target |-> Expand(rewritten.out.URI), args |-> "p"]).target)]
  /\ UNCHANGED <<policyVars, registryVars, engineVars, lockVars, watchVars, callVars>>

NextItems ==
  \/ CallTransform
  \/ CallExtractRawCapabilityNames
  \/ CallReadTemplate

SpecItems == InitItems /\ [][NextItems]_vars

\* ------------------------------------------------------------------------
\* config.Watcher and its owner: main's setupConfigWatcher, or a test that
\* starts a Watcher and closes it when it is done.  Time is counted in
\* ticks of 250 ms.
\* ------------------------------------------------------------------------

\* DefaultDebounceInterval, 500 ms
DefaultDebounceInterval == 2

\* how long the clock runs and how many file events there are
MaxTime == 7
MaxEvents == 3

\* who makes the Watcher
Owners == {"main", "test"}

\* the fsnotify events: the file they name and their operation
FileEvents ==
  [name : {"config", "other"}, op : {"write", "create", "chmod"}]

\* watchLoop's filter: the event names the config file and is a write or a
\* create
Relevant(event) == event.name = "config" /\ event.op \in {"write", "create"}

\* handleConfigChange, but a pending timer is left to run
handleConfigChange_keepsTimer(w, now) ==
  IF w.debounceTimer # 0 THEN w
  ELSE [w EXCEPT !.debounceTimer = now + DefaultDebounceInterval]

\* Watcher.handleConfigChange: the pending timer is stopped and a new one
\* is set to fire debounceInterval from now
handleConfigChange(w, now) ==
  [w EXCEPT !.debounceTimer = now + DefaultDebounceInterval]

\* Watcher.reloadConfig at time now: the run it makes.  calls is how many
\* times the registered callback, main's call of Reconfigure, was invoked.
reloadConfig(now, loads) ==
  [at |-> now, loaded |-> loads, calls |-> IF loads THEN 1 ELSE 0]

\* Watcher.Close: the fsnotify watcher is closed and the timer it sees is
\* stopped.  Close reads debounceTimer without the mutex: called from
\* another goroutine than watchLoop it may not see the timer (seen = FALSE).
WatcherClose(w, seen) ==
  [w EXCEPT !.open = FALSE,
            !.debounceTimer = IF seen THEN 0 ELSE @]

InitWatcher ==
  /\ NewInterposer
  /\ PolicyIdle
  /\ ItemsIdle
  /\ LocksIdle
  /\ CallsIdle
  /\ cw = NoWatcher
  /\ events = <<>>
  /\ handled = <<>>
  /\ reloads = <<>>
  /\ \E owner \in Owners : env = [NoEnv EXCEPT !.owner = owner]

\* setupConfigWatcher up to the return of watcher.Start (or the test up to
\* there): NewWatcher, OnChange, Start, which starts watchLoop
SetupStart ==
  /\ env.at = "setup"
  /\ cw' = [NoWatcher EXCEPT !.open = TRUE, !.looping = TRUE]
  /\ env' = [env EXCEPT !.at = "started"]
  /\ UNCHANGED <<events, handled, reloads>>
  /\ UNCHANGED <<policyVars, registryVars, engineVars, itemVars, lockVars, callVars>>

\* the return of setupConfigWatcher, where the deferred watcher.Close()
\* runs and main goes on to serve; or the end of the test, where the
\* deferred Close and cancel run
SetupReturn ==
  /\ env.at = "started"
  /\ \E seen \in BOOLEAN :
       /\ seen \/ cw.debounceTimer # 0
       /\ cw' = WatcherClose(cw, seen)
  /\ events' = <<>>
  /\ env' = [env EXCEPT !.at = IF env.owner = "main" THEN "serving" ELSE "done",
                        !.ctxDone = env.owner = "test",
                        !.closedAt = env.clock]
  /\ UNCHANGED <<handled, reloads>>
  /\ UNCHANGED <<policyVars, registryVars, engineVars, itemVars, lockVars, callVars>>

\* main's signal handler calls cancel()
Cancel ==
  /\ env.at = "serving"
  /\ env' = [env EXCEPT !.at = "done", !.ctxDone = TRUE]
  /\ UNCHANGED <<cw, events, handled, reloads>>
  /\ UNCHANGED <<policyVars, registryVars, engineVars, itemVars, lockVars, callVars>>

\* somebody touches a file in the directory of the config file; fsnotify
\* delivers the event while the watcher is open
FileEvent ==
  /\ env.at \in {"started", "serving"}
  /\ Len(handled) + Len(events) < MaxEvents
  /\ \E event \in FileEvents, loads \in BOOLEAN :
       /\ env' = [env EXCEPT !.fileLoads = IF event.name = "config"
                                           THEN loads ELSE @]
       /\ events' = IF cw.open THEN Append(events, event) ELSE events
  /\ UNCHANGED <<cw, handled, reloads>>
  /\ UNCHANGED <<policyVars, registryVars, engineVars, itemVars, lockVars, callVars>>

\* watchLoop receives an event
Receive ==
  /\ cw.looping
  /\ Len(events) > 0
  /\ events' = Tail(events)
  /\ IF Relevant(Head(events))
     THEN /\ cw' = handleConfigChange(cw, env.clock)
          /\ handled' = Append(handled, env.clock)
     ELSE UNCHANGED <<cw, handled>>
  /\ UNCHANGED <<env, reloads>>
  /\ UNCHANGED <<policyVars, registryVars, engineVars, itemVars, lockVars, callVars>>

\* watchLoop finds the Events channel closed and returns
LoopExit ==
  /\ cw.looping
  /\ ~cw.open
  /\ cw' = [cw EXCEPT !.looping = FALSE]
  /\ UNCHANGED <<events, env, handled, reloads>>
  /\ UNCHANGED <<policyVars, registryVars, engineVars, itemVars, lockVars, callVars>>

\* watchLoop finds the context done, calls cw.Close() and returns
LoopDone ==
  /\ cw.looping
  /\ env.ctxDone
  /\ cw' = [WatcherClose(cw, TRUE) EXCEPT !.looping = FALSE]
  /\ events' = <<>>
  /\ env' = [env EXCEPT !.closedAt = IF @ = -1 THEN env.clock ELSE @]
  /\ UNCHANGED <<handled, reloads>>
  /\ UNCHANGED <<policyVars, registryVars, engineVars, itemVars, lockVars, callVars>>

\* the debounce timer fires and runs reloadConfig
TimerFires ==
  /\ cw.debounceTimer # 0
  /\ env.clock >= cw.debounceTimer
  /\ cw' = [cw EXCEPT !.debounceTimer = 0]
  /\ reloads' = Append(reloads, reloadConfig(env.clock, env.fileLoads))
  /\ UNCHANGED <<events, env, handled>>
  /\ UNCHANGED <<policyVars, registryVars, engineVars, itemVars, lockVars, callVars>>

\* 250 ms pass.  watchLoop and the timer are prompt: no event waits in the
\* channel of a running loop and no timer is overdue when the clock moves.
Tick ==
  /\ env.clock < MaxTime
  /\ env.at # "setup"
  /\ ~(cw.looping /\ Len(events) > 0)
  /\ ~(cw.debounceTimer # 0 /\ env.clock >= cw.debounceTimer)
  /\ env' = [env EXCEPT !.clock = @ + 1]
  /\ UNCHANGED <<cw, events, handled, reloads>>
  /\ UNCHANGED <<policyVars, registryVars, engineVars, itemVars, lockVars, callVars>>

NextWatcher ==
  \/ SetupStart
  \/ SetupReturn
  \/ Cancel
  \/ FileEvent
  \/ Receive
  \/ LoopExit
  \/ LoopDone
  \/ TimerFires
  \/ Tick

SpecWatcher == InitWatcher /\ [][NextWatcher]_vars

\* ------------------------------------------------------------------------
\* The Interposer under concurrent callers.  Two goroutines each run one
\* operation, step by step: a step is a stretch of the code between two
\* operations on Interposer.mu.  todo are the steps a goroutine still has
\* to take; doing is what its last step did (an MCP request to a backend,
\* a notification to the upstream client, a call of the registry, a Close
\* of a client, a look at the session map), and locked whether it held
\* Interposer.mu while it did it.
\* ------------------------------------------------------------------------

Goroutines == {1, 2}

Server(name, policy) ==
  [Name |-> name, Enable |-> policy.Enable, Disable |-> policy.Disable]

\* the configurations a reload may bring while another reload is running
ReloadLists ==
  {<<>>, <<Server(A, PolicyNone)>>, <<Server(A, PolicyNone), Server(B, PolicyNone)>>}

\* Interposer.mu: Lock waits for the writer and the readers, RLock for the
\* writer
CanLockM == imu.writer = 0 /\ imu.readers = {}
CanRLockM == imu.writer = 0
Holds(g) == imu.writer = g \/ g \in imu.readers

\* AddBackend: Initialize, addClientCapabilities, then the client is stored
\* under the lock
AddBackendSteps == <<"Initialize", "addClientCapabilities", "store", "unlock">>

\* removeBackend after its look at the map, but the capabilities are
\* removed before the lock is released
removeBackendRest_underLock(clientExists) ==
  IF clientExists THEN <<"RemoveTrackedCapabilities", "unlock">> ELSE <<"unlock">>

\* removeBackend after its look at the map: the lock is released, and if
\* there was a client the capabilities are removed
removeBackendRest(clientExists) ==
  IF clientExists THEN <<"unlock", "RemoveTrackedCapabilities">> ELSE <<"unlock">>

\* UpdateCapabilityConfig, but the read lock is kept until it returns
UpdateCapabilityConfigSteps_keepsLock(name) == <<"lookup", "update", "runlock">>

\* UpdateCapabilityConfig: the client is copied under the read lock, the
\* lock is released, then the update is made
UpdateCapabilityConfigSteps(name) == <<"lookup", "runlock", "update">>

\* Reconfigure
ReconfigureSteps ==
  <<"getCurrentBackends", "runlock", "processRemovedBackends",
    "processUpdatedBackends", "processNewBackends", "sendNotifications">>

\* Close: every client is closed under the lock
CloseSteps == <<"closeAll", "unlock">>

\* the steps left when AddBackend returns an error from Initialize
RECURSIVE AddBackendFailed(_)
AddBackendFailed(todo) ==
  IF todo # <<>> /\ Head(todo) \in {"addClientCapabilities", "store", "unlock", "added"}
  THEN AddBackendFailed(Tail(todo))
  ELSE todo

\* the configuration of the backend a goroutine is working on
ConfigOf(c) ==
  c.configs[CHOOSE k \in DOMAIN c.configs : c.configs[k].Name = c.name]

\* the Interposer at the time the watcher starts: nothing configured, or a
\* started by main
Empty ==
  [clients |-> EmptyMap,
   registry |-> [capabilities |-> EmptyMap, backendCaps |-> EmptyMap],
   tools |-> EmptyMap, prompts |-> EmptyMap,
   resources |-> EmptyMap, templates |-> EmptyMap,
   created |-> 0, closed |-> {}, inits |-> EmptyMap, notes |-> <<>>,
   sendErr |-> FALSE, warnings |-> 0, rpcs |-> 0, listed |-> <<>>]

Started == {Empty, AddBackend(Empty, A, Server(A, PolicyNone), AnswerOk).i}

InitConcurrent ==
  /\ \E i \in Started :
       /\ clients = i.clients
       /\ capabilities = i.registry.capabilities
       /\ backendCaps = i.registry.backendCaps
       /\ srvTools = i.tools
       /\ srvPrompts = i.prompts
       /\ srvResources = i.resources
       /\ srvTemplates = i.templates
       /\ created = i.created
       /\ closed = i.closed
       /\ inits = i.inits
  /\ notes = <<>>
  /\ lastOp = NoOp
  /\ regResult = NoRegResult
  /\ PolicyIdle
  /\ ItemsIdle
  /\ LocksIdle
  /\ WatchIdle
  /\ CallsIdle

\* what a step leaves alone
Others == <<policyVars, regResult, itemVars, lockVars, watchVars, lastOp>>
Sessions == <<clients, closed>>
Registered ==
  <<capabilities, backendCaps, srvTools, srvPrompts, srvResources, srvTemplates>>
Started2 == <<created, inits>>

\* the goroutine g goes on as c
Becomes(g, c) == calls' = [calls EXCEPT ![g] = c]

\* a goroutine that runs nothing yet is handed an operation
Begin(g, op, todo, configs, name) ==
  /\ calls[g].op = "none"
  /\ Becomes(g, [NoCall EXCEPT !.op = op, !.todo = todo,
                               !.configs = configs, !.name = name])
  /\ UNCHANGED <<imu, Sessions, Registered, Started2, notes, Others>>

\* the debounce timer calls Reconfigure(serverConfigs)
StartReconfigure(g) ==
  \E serverConfigs \in ReloadLists :
    Begin(g, "Reconfigure", ReconfigureSteps, serverConfigs, <<>>)

\* a call of AddBackend(cfg.Name, cfg)
StartAddBackend(g) ==
  \E cfg \in {Server(B, PolicyNone)} :
    Begin(g, "AddBackend", AddBackendSteps, <<cfg>>, cfg.Name)

\* a call of UpdateCapabilityConfig(name, oldConfig, newConfig)
StartUpdateCapabilityConfig(g) ==
  \E newPolicy \in {PolicyOnlyToolX, PolicyDisabled} :
    Begin(g, "UpdateCapabilityConfig", UpdateCapabilityConfigSteps(A),
          <<Server(A, PolicyNone), Server(A, newPolicy)>>, A)

\* a call of Close()
StartClose(g) == Begin(g, "Close", CloseSteps, <<>>, <<>>)

\* an upstream request that the server hands to a handler
StartRequest(g) == Begin(g, "request", <<"forward">>, <<>>, <<>>)

\* the step a goroutine takes next
At(g, step) == calls[g].todo # <<>> /\ Head(calls[g].todo) = step

\* a step that touches neither the lock nor the data
Quiet(g, c) ==
  /\ Becomes(g, c)
  /\ UNCHANGED <<imu, Sessions, Registered, Started2, notes, Others>>

\* getCurrentBackends: under the read lock, the names of the sessions
GetCurrentBackends(g) ==
  /\ At(g, "getCurrentBackends")
  /\ CanRLockM
  /\ imu' = [imu EXCEPT !.readers = @ \cup {g}]
  /\ Becomes(g, [calls[g] EXCEPT
                   !.todo = Tail(@),
                   !.current = DOMAIN clients,
                   !.wanted = DOMAIN prepareNewConfigMap(calls[g].configs),
                   !.doing = {"map"}, !.locked = TRUE])
  /\ UNCHANGED <<Sessions, Registered, Started2, notes, Others>>

\* mu.RUnlock
RUnlockM(g) ==
  /\ At(g, "runlock")
  /\ imu' = [imu EXCEPT !.readers = @ \ {g}]
  /\ Becomes(g, [calls[g] EXCEPT !.todo = Tail(@), !.doing = {}, !.locked = FALSE])
  /\ UNCHANGED <<Sessions, Registered, Started2, notes, Others>>

\* mu.Unlock
UnlockM(g) ==
  /\ At(g, "unlock")
  /\ imu' = [imu EXCEPT !.writer = 0]
  /\ Becomes(g, [calls[g] EXCEPT !.todo = Tail(@), !.doing = {}, !.locked = FALSE])
  /\ UNCHANGED <<Sessions, Registered, Started2, notes, Others>>

\* processRemovedBackends: the next backend that is no longer configured
\* (processRemovedBackend asks the registry what it had), or the end of
\* the loop
ProcessRemovedBackends(g) ==
  /\ At(g, "processRemovedBackends")
  /\ IF calls[g].current \ calls[g].wanted = {}
     THEN Quiet(g, [calls[g] EXCEPT !.todo = Tail(@), !.doing = {},
                                    !.locked = Holds(g)])
     ELSE \E name \in calls[g].current \ calls[g].wanted :
            Quiet(g, [calls[g] EXCEPT
                        !.todo = <<"removeBackend">> \o @,
                        !.name = name,
                        !.current = @ \ {name},
                        !.changes = updateChanges(@, checkCapabilityChanges(
                                      GetCapabilitiesForBackend(Registry, name))),
                        !.doing = {"registry"}, !.locked = Holds(g)])

\* removeBackend: under the lock the client is closed and taken out of the
\* map
RemoveBackend(g) ==
  /\ At(g, "removeBackend")
  /\ CanLockM
  /\ imu' = [imu EXCEPT !.writer = g]
  /\ LET name == calls[g].name
         clientExists == name \in DOMAIN clients
     IN /\ clients' = IF clientExists THEN Delete(clients, name) ELSE clients
        /\ closed' = IF clientExists THEN closed \cup {clients[name]} ELSE closed
        /\ Becomes(g, [calls[g] EXCEPT
                         !.todo = removeBackendRest(clientExists) \o Tail(@),
                         !.existed = clientExists,
                         !.doing = IF clientExists THEN {"map", "close"} ELSE {"map"},
                         !.locked = TRUE])
  /\ UNCHANGED <<Registered, Started2, notes, Others>>

\* RemoveTrackedCapabilities: the registry forgets the backend, the tools
\* leave the upstream server, notifications are sent
RemoveTracked(g) ==
  /\ At(g, "RemoveTrackedCapabilities")
  /\ \E out \in {RemoveTrackedCapabilities(Interposer, calls[g].name)} :
       /\ Commit(out)
       /\ Becomes(g, [calls[g] EXCEPT
                        !.todo = Tail(@),
                        !.doing = {"registry"} \cup
                                  (IF out.notes # <<>> THEN {"notify"} ELSE {}),
                        !.locked = Holds(g)])
  /\ UNCHANGED <<imu, Others>>

\* processUpdatedBackends: the next backend that is still configured, or
\* the end of the loop
ProcessUpdatedBackends(g) ==
  /\ At(g, "processUpdatedBackends")
  /\ IF calls[g].current \cap calls[g].wanted = {}
     THEN Quiet(g, [calls[g] EXCEPT !.todo = Tail(@), !.doing = {},
                                    !.locked = Holds(g)])
     ELSE \E name \in calls[g].current \cap calls[g].wanted :
            Quiet(g, [calls[g] EXCEPT
                        !.todo = <<"verifyClientExists", "runlock",
                                   "updateExistingBackend">> \o @,
                        !.name = name,
                        !.current = @ \ {name},
                        !.doing = {}, !.locked = Holds(g)])

\* verifyClientExists: under the read lock
VerifyClientExists(g) ==
  /\ At(g, "verifyClientExists")
  /\ CanRLockM
  /\ imu' = [imu EXCEPT !.readers = @ \cup {g}]
  /\ Becomes(g, [calls[g] EXCEPT
                   !.todo = Tail(@),
                   !.existed = calls[g].name \in DOMAIN clients,
                   !.doing = {"map"}, !.locked = TRUE])
  /\ UNCHANGED <<Sessions, Registered, Started2, notes, Others>>

\* updateExistingBackend: a backend whose client is gone is left to
\* processNewBackends; any other is restarted (processBackendRestart asks
\* the registry what it had, removes it and adds it again)
UpdateExistingBackend(g) ==
  /\ At(g, "updateExistingBackend")
  /\ IF ~calls[g].existed
     THEN Quiet(g, [calls[g] EXCEPT !.todo = Tail(@), !.doing = {},
                                    !.locked = Holds(g)])
     ELSE Quiet(g, [calls[g] EXCEPT
                      !.todo = <<"removeBackend">> \o AddBackendSteps
                               \o <<"added">> \o Tail(@),
                      !.wanted = @ \ {calls[g].name},
                      !.changes = updateChanges(@, checkCapabilityChanges(
                                    GetCapabilitiesForBackend(Registry, calls[g].name))),
                      !.doing = {"registry"}, !.locked = Holds(g)])

\* AddBackend: the factory makes a client and Initialize is sent to it;
\* when that fails AddBackend returns (failed: a start of this call failed)
InitializeClient(g) ==
  /\ At(g, "Initialize")
  /\ \E start \in {"ok", "initErr"} :
       IF start = "ok"
       THEN /\ created' = created + 1
            /\ inits' = Put(inits, created + 1, 1)
            /\ Becomes(g, [calls[g] EXCEPT
                             !.todo = Tail(@),
                             !.mcpClient = created + 1,
                             !.doing = {"rpc"}, !.locked = Holds(g)])
       ELSE /\ UNCHANGED Started2
            /\ Becomes(g, [calls[g] EXCEPT
                             !.todo = AddBackendFailed(Tail(@)),
                             !.failed = TRUE,
                             !.doing = {"rpc"}, !.locked = Holds(g)])
  /\ UNCHANGED <<imu, Sessions, Registered, notes, Others>>

\* addClientCapabilities: the items are listed and registered
AddClientCapabilities(g) ==
  /\ At(g, "addClientCapabilities")
  /\ \E out \in {addClientCapabilities(Interposer, calls[g].mcpClient,
                                       ServerCapabilities(calls[g].name),
                                       ConfigOf(calls[g]), AnswerOk)} :
       /\ Commit(out)
       /\ Becomes(g, [calls[g] EXCEPT
                        !.todo = Tail(@),
                        !.doing = {"rpc", "registry"}, !.locked = Holds(g)])
  /\ UNCHANGED <<imu, Others>>

\* AddBackend: under the lock the client is stored
Store(g) ==
  /\ At(g, "store")
  /\ CanLockM
  /\ imu' = [imu EXCEPT !.writer = g]
  /\ clients' = Put(clients, calls[g].name, calls[g].mcpClient)
  /\ Becomes(g, [calls[g] EXCEPT !.todo = Tail(@), !.doing = {"map"},
                                 !.locked = TRUE])
  /\ UNCHANGED <<closed, Registered, Started2, notes, Others>>

\* processBackendRestart and processNewBackend after AddBackend returned
\* nil: the registry is asked what the backend has now
Added(g) ==
  /\ At(g, "added")
  /\ Quiet(g, [calls[g] EXCEPT
                 !.todo = Tail(@),
                 !.changes = updateChanges(@, checkCapabilityChanges(
                               GetCapabilitiesForBackend(Registry, calls[g].name))),
                 !.doing = {"registry"}, !.locked = Holds(g)])

\* processNewBackends: the next backend left in newConfigMap, or the end
\* of the loop
ProcessNewBackends(g) ==
  /\ At(g, "processNewBackends")
  /\ IF calls[g].wanted = {}
     THEN Quiet(g, [calls[g] EXCEPT !.todo = Tail(@), !.doing = {},
                                    !.locked = Holds(g)])
     ELSE \E name \in calls[g].wanted :
            Quiet(g, [calls[g] EXCEPT
                        !.todo = AddBackendSteps \o <<"added">> \o @,
                        !.name = name,
                        !.wanted = @ \ {name},
                        !.doing = {}, !.locked = Holds(g)])

\* sendNotifications: the end of Reconfigure
SendNotifications(g) ==
  /\ At(g, "sendNotifications")
  /\ \E out \in {sendNotifications(Interposer, calls[g].changes)} :
       /\ notes' = out.notes
       /\ Becomes(g, [calls[g] EXCEPT
                        !.todo = Tail(@),
                        !.doing = IF out.notes # <<>> THEN {"notify"} ELSE {},
                        !.locked = Holds(g)])
  /\ UNCHANGED <<imu, Sessions, Registered, Started2, Others>>

\* Close: under the lock every client is closed
CloseAll(g) ==
  /\ At(g, "closeAll")
  /\ CanLockM
  /\ imu' = [imu EXCEPT !.writer = g]
  /\ closed' = Close(Interposer, {}).closed
  /\ Becomes(g, [calls[g] EXCEPT !.todo = Tail(@), !.doing = {"map", "close"},
                                 !.locked = TRUE])
  /\ UNCHANGED <<clients, Registered, Started2, notes, Others>>

\* UpdateCapabilityConfig: under the read lock the client is copied
Lookup(g) ==
  /\ At(g, "lookup")
  /\ CanRLockM
  /\ imu' = [imu EXCEPT !.readers = @ \cup {g}]
  /\ Becomes(g, [calls[g] EXCEPT
                   !.todo = Tail(@),
                   !.existed = calls[g].name \in DOMAIN clients,
                   !.mcpClient = IF calls[g].name \in DOMAIN clients
                                 THEN clients[calls[g].name] ELSE 0,
                   !.doing = {"map"}, !.locked = TRUE])
  /\ UNCHANGED <<Sessions, Registered, Started2, notes, Others>>

\* UpdateCapabilityConfig after the lookup: ErrBackendNotFound, or the
\* removal of a backend that is now disabled, or the update of the
\* capabilities with the client that was copied
Update(g) ==
  /\ At(g, "update")
  /\ IF ~calls[g].existed
     THEN Quiet(g, [calls[g] EXCEPT !.todo = Tail(@), !.doing = {},
                                    !.locked = Holds(g)])
     ELSE IF Disabled(calls[g].configs[2])
     THEN Quiet(g, [calls[g] EXCEPT !.todo = <<"removeBackend">> \o Tail(@),
                                    !.doing = {}, !.locked = Holds(g)])
     ELSE \E out \in {updateCapabilities(
                        [Interposer EXCEPT
                           !.clients = Put(@, calls[g].name, calls[g].mcpClient)],
                        calls[g].name,
                        GetCapabilitiesForBackend(Registry, calls[g].name),
                        calls[g].configs[1], calls[g].configs[2], AnswerOk).i} :
            /\ Commit([out EXCEPT !.clients = clients])
            /\ Becomes(g, [calls[g] EXCEPT
                             !.todo = Tail(@),
                             !.doing = {"registry"}
                                       \cup (IF out.rpcs > 0 THEN {"rpc"} ELSE {})
                                       \cup (IF out.notes # <<>> THEN {"notify"} ELSE {}),
                             !.locked = Holds(g)])
            /\ UNCHANGED <<imu, Others>>

\* a handler forwards a request to the client it was made with
Forward(g) ==
  /\ At(g, "forward")
  /\ Quiet(g, [calls[g] EXCEPT !.todo = Tail(@), !.doing = {"rpc"},
                               !.locked = Holds(g)])

NextConcurrent ==
  \E g \in Goroutines :
    \/ StartReconfigure(g)
    \/ StartAddBackend(g)
    \/ StartUpdateCapabilityConfig(g)
    \/ StartClose(g)
    \/ StartRequest(g)
    \/ GetCurrentBackends(g)
    \/ RUnlockM(g)
    \/ UnlockM(g)
    \/ ProcessRemovedBackends(g)
    \/ RemoveBackend(g)
    \/ RemoveTracked(g)
    \/ ProcessUpdatedBackends(g)
    \/ VerifyClientExists(g)
    \/ UpdateExistingBackend(g)
    \/ InitializeClient(g)
    \/ AddClientCapabilities(g)
    \/ Store(g)
    \/ Added(g)
    \/ ProcessNewBackends(g)
    \/ SendNotifications(g)
    \/ CloseAll(g)
    \/ Lookup(g)
    \/ Update(g)
    \/ Forward(g)

SpecConcurrent == InitConcurrent /\ [][NextConcurrent]_vars

\* ------------------------------------------------------------------------
\* Properties of the registry (checked under SpecRegistry)
\* ------------------------------------------------------------------------

\* C2: registry invariant I1.  After any sequence of Add, Remove and
\* RemoveBackend calls, for every backend b and key k, k is in
\* backendCaps[b] if and only if capabilities[k] = b.
C2_RegistryConsistency ==
  \A b \in RegBackends, k \in RegKeys :
    (b \in DOMAIN backendCaps /\ k \in backendCaps[b])
      <=> (k \in DOMAIN capabilities /\ capabilities[k] = b)

\* what LookupBackend answers for a key that is absent
NotPresent == [backend |-> <<>>, existed |-> FALSE]

\* C15: the registry is a map from key to owner.  An Add makes its backend
\* the owner of the key, whoever owned it before, and a Remove makes the key
\* absent, each leaving every other key as it was; so LookupBackend answers
\* with the backend of the latest Add not followed by a Remove, or "not
\* present".  Remove returns the owner it removed with true, or "not
\* present" for an absent key, which changes nothing.
C15_RegistryIsAMap ==
  [][/\ regResult'.op = "AddCapability" =>
          \A t \in RegTypes, n \in RegNames :
            GetBackendForCapability(Registry', t, n) =
              IF t = regResult'.capType /\ n = regResult'.capName
              THEN [backend |-> regResult'.backend, existed |-> TRUE]
              ELSE GetBackendForCapability(Registry, t, n)
     /\ regResult'.op = "RemoveCapability" =>
          /\ [backend |-> regResult'.backend, existed |-> regResult'.existed]
               = GetBackendForCapability(Registry, regResult'.capType,
                                         regResult'.capName)
          /\ ~regResult'.existed => Registry' = Registry
          /\ \A t \in RegTypes, n \in RegNames :
               GetBackendForCapability(Registry', t, n) =
                 IF t = regResult'.capType /\ n = regResult'.capName
                 THEN NotPresent
                 ELSE GetBackendForCapability(Registry, t, n)
     /\ regResult'.op = "GetBackendForCapability" =>
          /\ Registry' = Registry
          /\ regResult'.existed =
               (CapabilityKey(regResult'.capType, regResult'.capName)
                  \in DOMAIN capabilities)
          /\ regResult'.backend =
               IF regResult'.existed
               THEN capabilities[CapabilityKey(regResult'.capType,
                                               regResult'.capName)]
               ELSE <<>>]_vars

\* C15 witness: a key that b had added and a then added again has been
\* looked up, and the answer was a.
C15_Witness ==
  /\ regResult.op = "GetBackendForCapability"
  /\ regResult.existed
  /\ regResult.backend = A
  /\ B \in DOMAIN backendCaps
  /\ CapabilityKey(regResult.capType, regResult.capName) \in backendCaps[B]

\* C16: RemoveBackend(b) returns, grouped by type, exactly the keys that
\* ForBackend(b) reported just before, leaves ForBackend(b) empty, and
\* leaves what LookupBackend and ForBackend answer for every other backend
\* as it was.
C16_RemoveBackendTouchesOnlyItsBackend ==
  [][regResult'.op = "RemoveBackendCapabilities" =>
       /\ regResult'.byType = GetCapabilitiesForBackend(Registry, regResult'.backend)
       /\ GetCapabilitiesForBackend(Registry', regResult'.backend) = EmptyMap
       /\ \A other \in RegBackends \ {regResult'.backend} :
            /\ GetCapabilitiesForBackend(Registry', other)
                 = GetCapabilitiesForBackend(Registry, other)
            /\ \A t \in RegTypes, n \in RegNames :
                 GetBackendForCapability(Registry, t, n)
                     = [backend |-> other, existed |-> TRUE]
                   => GetBackendForCapability(Registry', t, n)
                        = GetBackendForCapability(Registry, t, n)]_vars

\* a mutation has updated one of the two maps and not yet the other
Partial == \E q \in Procs : threads[q].at = "half"

\* C17: every registry method is atomic with respect to every other.  A
\* query that holds the mutex, before or after its read, never overlaps a
\* mutation that has updated only one of the two maps: what it returns
\* belongs to the registry before or after that whole mutation.
C17_QueriesSeeWholeMutations ==
  \A p \in Procs :
    (threads[p].op \in ReaderOps /\ threads[p].at \in {"locked", "done"})
      => /\ ~Partial
         /\ mu.writer = 0

\* C17 witness: while one goroutine still holds the read lock with the
\* answer that b owns the key, the other has taken the read lock too; the
\* Add by b went through both maps before either of them got in.
C17_Witness ==
  /\ threads[1].op = "GetBackendForCapability"
  /\ threads[1].at = "done"
  /\ threads[1].result = [backend |-> B, existed |-> TRUE]
  /\ threads[2].op = "GetCapabilitiesForBackend"
  /\ threads[2].at = "locked"
  /\ mu.readers = Procs
  /\ B \in DOMAIN backendCaps

\* the backends that own at least one capability
OwningBackends(r) == {r.capabilities[key] : key \in DOMAIN r.capabilities}

\* C40: GetAllBackends returns exactly the backends that own at least one
\* capability, whatever calls of AddCapability, RemoveCapability and
\* RemoveBackendCapabilities came before
C40_AllBackendsAreTheOwners ==
  regResult.op = "GetAllBackends" => regResult.backends = OwningBackends(Registry)

\* ------------------------------------------------------------------------
\* Properties of the interposer (checked under Spec)
\* ------------------------------------------------------------------------

\* the part of the upstream server that keeps the items of a kind
Facade(kind) ==
  CASE kind = "tool" -> srvTools
    [] kind = "prompt" -> srvPrompts
    [] kind = "resource" -> srvResources
    [] kind = "template" -> srvTemplates

\* the items a backend lists when it is added: those of the kinds whose
\* capability it declares
Listed(backend, kind) ==
  IF DeclaredBy(kind) \in ServerCapabilities(backend)
  THEN AllItems(backend, kind)
  ELSE {}

\* an upstream request for the item kept under key, and what the backend
\* should be asked for in turn
UpstreamTarget(kind, key) == IF kind = "template" THEN Expand(key) ELSE key

RawTarget(kind, item) ==
  CASE kind \in {"tool", "prompt"} -> item.Name
    [] kind = "resource" -> item.URI
    [] kind = "template" -> Expand(item.URI)

Sent(notificationType) == \E k \in DOMAIN notes : notes[k] = notificationType

\* every item that the backend listed and that cfg lets through is shown
\* under its rewritten name and routed to the client of the backend
ShownAndRouted(name, cfg) ==
  \A kind \in Kinds :
    \A item \in Listed(name, kind) :
      Enabled(cfg, ConfigType(kind), item.Name) =>
        LET shown == transform(name, kind, item)
            key == FacadeKey(kind, shown)
        IN /\ key \in DOMAIN Facade(kind)
           /\ Facade(kind)[key].item = shown
           /\ \A args \in Args :
                Upstream(Interposer, kind,
                         [target |-> UpstreamTarget(kind, key), args |-> args])
                  = {[found |-> TRUE,
                      sent |-> <<BackendRequest(clients[name], Method(kind),
                                                RawTarget(kind, item), args)>>]}

\* C1: after AddBackend(name, cfg) has returned without error, every tool,
\* prompt, resource and resource template that the backend listed and that
\* cfg's policy lets through is in the upstream server under its rewritten
\* name, and an upstream request for it is answered by one request to the
\* client of that backend, carrying the raw name or URI and the caller's
\* arguments.  This holds for a call made by main and for the calls that
\* Reconfigure makes for the backends it starts.
C1_AddedItemsAreShownAndRouted ==
  /\ (lastOp.op = "AddBackend" /\ lastOp.err = ErrNone) =>
       ShownAndRouted(lastOp.name, lastOp.configs[1])
  /\ lastOp.op = "Reconfigure" =>
       \A k \in DOMAIN lastOp.configs :
         LET cfg == lastOp.configs[k]
         IN (~Disabled(cfg) /\ cfg.Name \notin lastOp.failed) =>
              ShownAndRouted(cfg.Name, cfg)

\* C1 witness: b has just been added with its template while a is live with
\* a policy that lets only its tool x through.
C1_Witness ==
  /\ lastOp.op = "AddBackend" /\ lastOp.err = ErrNone /\ lastOp.name = B
  /\ (B \o <<"+">> \o T) \in DOMAIN srvTemplates
  /\ A \in DOMAIN clients
  /\ (A \o <<"-">> \o X) \in DOMAIN srvTools
  /\ (A \o <<"-">> \o Y) \notin DOMAIN srvTools

\* C3: after Reconfigure(C) in which no backend failed to start, the
\* sessions are exactly the names of the entries of C that are not
\* Disabled(), whatever sessions there were before (so the session set after
\* Reconfigure(C2) does not depend on an earlier Reconfigure(C1)).
C3_SessionsAreTheEnabledNames ==
  (lastOp.op = "Reconfigure" /\ lastOp.failed = {}) =>
    DOMAIN clients =
      {lastOp.configs[k].Name :
         k \in {j \in DOMAIN lastOp.configs : ~Disabled(lastOp.configs[j])}}

\* C3 witness: a and b were live; the new list disables a and keeps b.
C3_Witness ==
  /\ lastOp.op = "Reconfigure" /\ lastOp.failed = {}
  /\ Len(lastOp.configs) = MaxConfigs
  /\ Disabled(lastOp.configs[1]) /\ ~Disabled(lastOp.configs[2])
  /\ A \in DOMAIN lastOp.removed
  /\ lastOp.restarted = {B}
  /\ DOMAIN clients = {B}

\* C4: Reconfigure is idempotent.  When Reconfigure(C) follows Reconfigure(C)
\* and the backends answer the second time as they did the first, the
\* second call leaves the session set and the registry as the first left
\* them.
C4_ReconfigureIsIdempotent ==
  [][(lastOp'.op = "Reconfigure" /\ lastOp'.repeat) =>
       /\ DOMAIN clients' = DOMAIN clients
       /\ capabilities' = capabilities
       /\ backendCaps' = backendCaps]_vars

\* C4 witness: the same list has been applied twice, a was restarted by the
\* second call and owns capabilities.
C4_Witness ==
  /\ lastOp.op = "Reconfigure" /\ lastOp.repeat
  /\ lastOp.restarted = {A}
  /\ A \in DOMAIN backendCaps
  /\ closed # {}

\* C5: with a and b live and b owning a tool, after Reconfigure([a]) a
\* toolsChange notification has been sent, the registry has no entry for b
\* (b is not among its backends and no key maps to b), no tool with b's
\* prefix is left in the upstream server, and a call of such a tool is
\* answered "not found" without anything being forwarded.
C5_RemovedBackendIsGone ==
  [][\A a \in BackendNames, b \in BackendNames :
       (/\ a # b
        /\ {a, b} \subseteq DOMAIN clients
        /\ \E k \in DOMAIN capabilities : k.Type = "tool" /\ capabilities[k] = b
        /\ lastOp'.op = "Reconfigure"
        /\ Len(lastOp'.configs) = 1
        /\ lastOp'.configs[1].Name = a)
       => /\ \E k \in DOMAIN notes' : notes'[k] = "toolsChange"
          /\ b \notin DOMAIN backendCaps'
          /\ \A k \in DOMAIN capabilities' : capabilities'[k] # b
          /\ \A n \in DOMAIN srvTools' : ~HasPrefix(n, b \o <<"-">>)
          /\ \A item \in AllItems(b, "tool"), args \in Args :
               CallTool(Interposer',
                        [target |-> transform(b, "tool", item).Name, args |-> args])
                 = NotFound]_vars

\* C5 witness: Reconfigure([a]) has removed b, which had tools, and has
\* restarted a.
C5_Witness ==
  /\ lastOp.op = "Reconfigure"
  /\ Len(lastOp.configs) = 1 /\ lastOp.configs[1].Name = A
  /\ B \in DOMAIN lastOp.removed /\ lastOp.removed[B].toolsChanged
  /\ lastOp.restarted = {A} /\ lastOp.failed = {}
  /\ Sent("toolsChange")
  /\ (A \o <<"-">> \o X) \in DOMAIN srvTools
  /\ (B \o <<"-">> \o X) \notin DOMAIN srvTools

\* C6: when Reconfigure has removed a backend, none of the tools, prompts,
\* resources or resource templates that were registered for that backend is
\* left in the upstream server.
C6_RemovedBackendLeavesTheFacade ==
  lastOp.op = "Reconfigure" =>
    \A name \in DOMAIN lastOp.removed, kind \in Kinds :
      \A key \in DOMAIN Facade(kind) : Facade(kind)[key].handler.name # name

\* C7: when AddBackend returns an error (the factory failed, Initialize
\* failed, or Initialize gave a nil result) the session map, the registry and
\* the upstream server are as they were before the call.
C7_FailedAddBackendLeavesNoTrace ==
  [][(lastOp'.op = "AddBackend" /\ lastOp'.err # ErrNone) =>
       /\ clients' = clients
       /\ capabilities' = capabilities
       /\ backendCaps' = backendCaps
       /\ srvTools' = srvTools
       /\ srvPrompts' = srvPrompts
       /\ srvResources' = srvResources
       /\ srvTemplates' = srvTemplates]_vars

\* C7 witness: adding b failed at Initialize while a was live.
C7_Witness ==
  /\ lastOp.op = "AddBackend" /\ lastOp.err = ErrInitialize /\ lastOp.name = B
  /\ DOMAIN clients = {A}
  /\ srvTools # EmptyMap

\* the prefix transform puts in front of the name or URI under which the
\* upstream server keeps an item of the kind
Prefix(name, kind) ==
  CASE kind = "tool" -> name \o <<"-">>
    [] kind = "prompt" -> name \o <<".">>
    [] kind \in {"resource", "template"} -> name \o <<"+">>

\* the registry has no entry for the backend
NotInRegistry(name) ==
  /\ name \notin DOMAIN backendCaps
  /\ \A k \in DOMAIN capabilities : capabilities[k] # name

\* the upstream server lists no item that carries the prefix of the backend
NotInFacade(name) ==
  \A kind \in Kinds :
    \A key \in DOMAIN Facade(kind) : ~HasPrefix(key, Prefix(name, kind))

\* C14: for a backend whose configuration is Disabled(), AddBackend
\* registers nothing: after it the registry has no entry for the backend and
\* the upstream server lists no item carrying its prefix.
C14_DisabledBackendRegistersNothing ==
  (/\ lastOp.op = "AddBackend"
   /\ lastOp.err = ErrNone
   /\ Disabled(lastOp.configs[1]))
    => NotInRegistry(lastOp.name) /\ NotInFacade(lastOp.name)

NoteRank(notificationType) ==
  CASE notificationType = "toolsChange" -> 1
    [] notificationType = "promptsChange" -> 2
    [] notificationType = "resourcesChange" -> 3

\* C19: the notifications sent during one Reconfigure come tools first,
\* then prompts, then resources: no toolsChange after a promptsChange or a
\* resourcesChange, no promptsChange after a resourcesChange.
C19_NotificationsInOrder ==
  lastOp.op = "Reconfigure" =>
    \A j, k \in DOMAIN notes :
      j < k => NoteRank(notes[j]) <= NoteRank(notes[k])

\* the keys of the given types that the registry holds
TypeKeys(caps, types) == {k \in DOMAIN caps : k.Type \in types}

\* the notification that tells of a change to items of the given types
NotificationFor ==
  {[types |-> {"tool"}, note |-> "toolsChange"],
   [types |-> {"prompt"}, note |-> "promptsChange"],
   [types |-> {"resource", "template"}, note |-> "resourcesChange"]}

\* C20: an engine operation after which the registry holds other tools than
\* before has sent toolsChange before it returned; likewise promptsChange
\* for prompts and resourcesChange for resources and templates.
C20_MutationsAreNotified ==
  [][\A n \in NotificationFor :
       TypeKeys(capabilities', n.types) # TypeKeys(capabilities, n.types)
         => \E k \in DOMAIN notes' : notes'[k] = n.note]_vars

\* backend b is the owner of some capability of the given types, by either
\* of the two maps of the registry
Owns(b, types, caps, byBackend) ==
  \/ \E k \in DOMAIN caps : caps[k] = b /\ k.Type \in types
  \/ b \in DOMAIN byBackend /\ \E k \in byBackend[b] : k.Type \in types

\* the backends that the Reconfigure recorded in op removed, restarted, or
\* added to the sessions
Touched(op, sessions) ==
  DOMAIN op.removed \cup op.restarted
    \cup (DOMAIN prepareNewConfigMap(op.configs) \cap DOMAIN sessions)

\* C21: Reconfigure announces only what was touched.  A notification of a
\* kind is sent during a Reconfigure only if some backend that the call
\* removed, restarted or added owned a capability of the matching type
\* before or after the call; resources and templates both stand behind
\* resourcesChange.
C21_OnlyTouchedTypesAreAnnounced ==
  [][lastOp'.op = "Reconfigure" =>
       \A n \in NotificationFor :
         (\E k \in DOMAIN notes' : notes'[k] = n.note)
           => \E b \in Touched(lastOp', clients') :
                \/ Owns(b, n.types, capabilities, backendCaps)
                \/ Owns(b, n.types, capabilities', backendCaps')]_vars

\* C21 witness: a Reconfigure that added only b, which has tools and a
\* template and no prompt: toolsChange and resourcesChange were sent, and
\* no promptsChange
C21_Witness ==
  /\ lastOp.op = "Reconfigure"
  /\ DOMAIN clients = {B}
  /\ lastOp.removed = EmptyMap /\ lastOp.restarted = {}
  /\ Sent("toolsChange") /\ Sent("resourcesChange")
  /\ ~Sent("promptsChange")

\* the entries of a configuration list
Entries(configs) == {configs[k] : k \in DOMAIN configs}

\* C22: a live backend whose entry in the configuration given to
\* Reconfigure is the entry it was started with keeps its connection: the
\* client is neither closed nor replaced, and its capabilities stay
\* registered.
C22_UnchangedBackendKeepsItsConnection ==
  [][\A n \in DOMAIN clients :
       (/\ lastOp.op \in {"AddBackend", "Reconfigure"}
        /\ lastOp'.op = "Reconfigure"
        /\ \E cfg \in Entries(lastOp.configs) \cap Entries(lastOp'.configs) :
             cfg.Name = n)
       => /\ n \in DOMAIN clients'
          /\ clients'[n] = clients[n]
          /\ clients[n] \notin closed'
          /\ \A k \in DOMAIN capabilities :
               capabilities[k] = n
                 => k \in DOMAIN capabilities' /\ capabilities'[k] = n]_vars

\* the configuration that the UpdateCapabilityConfig recorded in op was
\* given as the new one
NewConfig(op) == op.configs[2]

\* op is an UpdateCapabilityConfig for a backend that had a session, with a
\* new configuration that is not Disabled
UpdatesLive(op, sessions) ==
  /\ op.op = "UpdateCapabilityConfig"
  /\ op.name \in DOMAIN sessions
  /\ ~Disabled(NewConfig(op))

\* C25: UpdateCapabilityConfig with a new configuration that is not
\* Disabled removes, from the upstream server and from the registry, every
\* tool registered for the backend whose raw name the new configuration no
\* longer enables; the tools it still enables stay registered.
C25_DisallowedToolsAreDeleted ==
  [][UpdatesLive(lastOp', clients) =>
       \A k \in DOMAIN capabilities :
         (k.Type = "tool" /\ capabilities[k] = lastOp'.name)
           => IF Enabled(NewConfig(lastOp'), CapabilityTypeTool,
                         SubSeq(k.Name, Len(lastOp'.name) + 2, Len(k.Name)))
              THEN /\ k \in DOMAIN capabilities'
                   /\ capabilities'[k] = lastOp'.name
                   /\ k.Name \in DOMAIN srvTools'
              ELSE /\ k \notin DOMAIN capabilities'
                   /\ k.Name \notin DOMAIN srvTools']_vars

\* C26: UpdateCapabilityConfig with a new configuration that is not
\* Disabled and whose enable or disable policy differs from the old one
\* lists again every kind the backend supports, and every item the backend
\* has that the new configuration enables and that was not registered is,
\* after the call, shown upstream under its rewritten name and owned by the
\* backend in the registry (the backend answering every request).
C26_NewlyAllowedItemsAreRegistered ==
  [][(/\ UpdatesLive(lastOp', clients)
      /\ needsReinit(lastOp'.configs[1], NewConfig(lastOp'))
      /\ lastOp'.answer = AnswerOk)
     => \A kind \in Kinds :
          \A item \in Listed(lastOp'.name, kind) :
            (/\ Enabled(NewConfig(lastOp'), ConfigType(kind), item.Name)
             /\ CapabilityKey(kind, transform(lastOp'.name, kind, item).Name)
                  \notin DOMAIN capabilities)
            => /\ FacadeKey(kind, transform(lastOp'.name, kind, item))
                    \in DOMAIN Facade(kind)'
               /\ CapabilityKey(kind, transform(lastOp'.name, kind, item).Name)
                    \in DOMAIN capabilities'
               /\ capabilities'[CapabilityKey(kind,
                                  transform(lastOp'.name, kind, item).Name)]
                    = lastOp'.name]_vars

\* C27: UpdateCapabilityConfig for a name that has no session returns
\* ErrBackendNotFound and changes nothing: sessions, registry and upstream
\* server are as before, no request is sent to a backend, no client is
\* created or closed, and no notification is sent.
C27_UnknownBackendIsLeftAlone ==
  [][(lastOp'.op = "UpdateCapabilityConfig" /\ lastOp'.name \notin DOMAIN clients)
     => /\ lastOp'.err = ErrBackendNotFound
        /\ UNCHANGED <<clients, capabilities, backendCaps>>
        /\ UNCHANGED <<srvTools, srvPrompts, srvResources, srvTemplates>>
        /\ UNCHANGED <<created, closed, inits>>
        /\ lastOp'.rpcs = 0
        /\ notes' = <<>>]_vars

\* C27 witness: b has a session and holds tools, a has none, and an update
\* of a has just been refused
C27_Witness ==
  /\ lastOp.op = "UpdateCapabilityConfig"
  /\ lastOp.name = A
  /\ lastOp.err = ErrBackendNotFound
  /\ DOMAIN clients = {B}
  /\ DOMAIN srvTools # {}

\* C30: a session never re-initializes: whatever AddBackend and
\* UpdateCapabilityConfig calls are made, no client is sent Initialize more
\* than once.
C30_InitializedAtMostOnce ==
  \A c \in DOMAIN inits : inits[c] <= 1

\* C35: Close calls Close on the client of every session, also after the
\* Close of one of them failed (the failure is only logged), returns nil,
\* and leaves the registry and the session map as they were
C35_CloseClosesEveryClient ==
  [][lastOp'.op = "Close"
     => /\ closed' = closed \cup {clients[n] : n \in DOMAIN clients}
        /\ lastOp'.err = ErrNone
        /\ lastOp'.warnings = Cardinality(lastOp'.closeErrs)
        /\ capabilities' = capabilities
        /\ backendCaps' = backendCaps
        /\ clients' = clients]_vars

\* Close has run over two sessions, the Close of one client failed, and
\* both clients have been closed
C35_Witness ==
  /\ lastOp.op = "Close"
  /\ Cardinality(DOMAIN clients) = 2
  /\ Cardinality(lastOp.closeErrs) = 1
  /\ {clients[n] : n \in DOMAIN clients} \subseteq closed
  /\ capabilities # EmptyMap

\* C38: no client is leaked: every client that was created and initialized
\* is the client the session map holds for a backend, or has been closed
C38_NoClientIsLeaked ==
  \A mcpClient \in 1..created :
    \/ mcpClient \in {clients[n] : n \in DOMAIN clients}
    \/ mcpClient \in closed

\* C39: a server whose configuration is Disabled() is never connected:
\* AddBackend, as the startup loop calls it, and Reconfigure create no
\* client for it, and after the call it has no session
C39_DisabledIsNeverConnected ==
  [][/\ (lastOp'.op = "AddBackend" /\ Disabled(lastOp'.configs[1]))
        => /\ created' = created
           /\ lastOp'.name \notin DOMAIN clients'
     /\ lastOp'.op = "Reconfigure"
        => \A k \in DOMAIN lastOp'.configs :
             Disabled(lastOp'.configs[k])
             => lastOp'.configs[k].Name \notin DOMAIN clients']_vars

\* ------------------------------------------------------------------------
\* Properties of the enumeration (checked under SpecEnumerate)
\* ------------------------------------------------------------------------

\* the keys of the upstream server whose handler holds the client
RegisteredWith(kind, mcpClient) ==
  {key \in DOMAIN Facade(kind) : Facade(kind)[key].handler.client = mcpClient}

\* the items of the first pages of a kind, up to page last
ItemsUpTo(backend, kind, last) ==
  UNION {{Pages(backend, kind)[p][k] : k \in DOMAIN Pages(backend, kind)[p]} :
           p \in {q \in DOMAIN Pages(backend, kind) : q <= last}}

\* the keys under which the items that cfg lets through are registered
Passing(cfg, kind, items) ==
  {FacadeKey(kind, transform(cfg.Name, kind, item)) :
     item \in {it \in items : Enabled(cfg, ConfigType(kind), it.Name)}}

\* the last call was an AddBackend of a server that is not disabled, to a
\* backend that started
Enumerated ==
  /\ lastOp.op = "AddBackend"
  /\ lastOp.answer.start = "ok"
  /\ ~Disabled(lastOp.configs[1])

\* the List request of a kind the backend declares has failed in that call
ListFailed ==
  /\ Enumerated
  /\ lastOp.answer.failKind \in Kinds
  /\ DeclaredBy(lastOp.answer.failKind) \in ServerCapabilities(lastOp.name)
  /\ lastOp.answer.failPage <= Len(Pages(lastOp.name, lastOp.answer.failKind))

\* AddBackend succeeded and inserted the session, one warning was logged,
\* and every other kind was enumerated and registered in full
OthersProceed ==
  /\ lastOp.err = ErrNone
  /\ lastOp.name \in DOMAIN clients
  /\ clients[lastOp.name] = created
  /\ lastOp.warnings = 1
  /\ \A kind \in Kinds \ {lastOp.answer.failKind} :
       RegisteredWith(kind, created)
         = Passing(lastOp.configs[1], kind, Listed(lastOp.name, kind))

Requests(kind) == SelectSeq(lastOp.listed, LAMBDA r : r.kind = kind)

\* the List requests that fetch every page of a kind: the empty cursor,
\* then the cursor each page returned
EveryPage(backend, kind) ==
  [k \in 1..Len(Pages(backend, kind)) |->
     [kind |-> kind, cursor |-> IF k = 1 THEN 0 ELSE k]]

\* C33: addItems starts with the empty cursor, asks for each next page with
\* the cursor the page before returned, stops when a page returns the empty
\* cursor, and registers the items of every page that the policy lets
\* through; for a kind the backend does not declare nothing is requested
C33_EveryPageIsFetched ==
  Enumerated
  => \A kind \in Kinds \ {lastOp.answer.failKind} :
       IF DeclaredBy(kind) \in ServerCapabilities(lastOp.name)
       THEN /\ Requests(kind) = EveryPage(lastOp.name, kind)
            /\ RegisteredWith(kind, created)
                 = Passing(lastOp.configs[1], kind, AllItems(lastOp.name, kind))
       ELSE Requests(kind) = <<>>

\* the two pages of tools of a have been fetched, and both tools are
\* registered
C33_Witness ==
  /\ Enumerated
  /\ lastOp.name = A
  /\ lastOp.answer.failKind = "none"
  /\ Requests("tool") = <<[kind |-> "tool", cursor |-> 0],
                          [kind |-> "tool", cursor |-> 2]>>
  /\ Cardinality(RegisteredWith("tool", created)) = 2

\* ------------------------------------------------------------------------
\* Properties of items.go (checked under SpecItems)
\* ------------------------------------------------------------------------

\* the name holds none of the separators '-', '.', '+'
NoSeparator(s) == \A k \in DOMAIN s : s[k] \notin {"-", ".", "+"}

\* C12: namespace disjointness I2.  For two backends with distinct names
\* that hold none of the separators, and any two raw items of one type, the
\* rewritten names differ, and for resources and templates the rewritten
\* URIs differ, so no registry key is claimed by both backends.
C12_RewrittenNamesAreDisjoint ==
  [][(/\ rewritten.op = "transform"
      /\ rewritten'.op = "transform"
      /\ rewritten.kind = rewritten'.kind
      /\ rewritten.name # rewritten'.name
      /\ NoSeparator(rewritten.name)
      /\ NoSeparator(rewritten'.name))
       => /\ rewritten.out.Name # rewritten'.out.Name
          /\ CapabilityKey(rewritten.kind, rewritten.out.Name)
               # CapabilityKey(rewritten'.kind, rewritten'.out.Name)
          /\ rewritten.kind \in {"resource", "template"}
               => rewritten.out.URI # rewritten'.out.URI]_vars

\* C12 witness: a backend with a separator-free name of two letters has had
\* a resource rewritten whose raw name and URI are separators themselves.
C12_Witness ==
  /\ rewritten.op = "transform"
  /\ rewritten.kind = "resource"
  /\ Len(rewritten.name) = 2
  /\ NoSeparator(rewritten.name)
  /\ rewritten.item = Item(<<"-">>, <<"+">>)
  /\ rewritten.out = Item(rewritten.name \o <<"-", "-">>,
                          rewritten.name \o <<"+", "+">>)

\* C13: rewrite round trip.  For every backend name and raw item of any
\* type, cutting len(name)+1 characters off the registered name gives the raw
\* name back, and a template read that trims the `name+` prefix from the
\* requested URI asks the backend for the URI the raw template stands for.
C13_RewriteRoundTrip ==
  /\ rewritten.op = "extractRawCapabilityNames"
       => rewritten.out.Name = rewritten.item.Name
  /\ rewritten.op = "handleResource"
       => rewritten.out.URI = Expand(rewritten.item.URI)

\* C13 witness: a template whose raw URI template starts with `+`, of a
\* backend whose name ends in `+`, has been read.
C13_Witness ==
  /\ rewritten.op = "handleResource"
  /\ Len(rewritten.name) = 2
  /\ rewritten.name[2] = "+"
  /\ rewritten.item.URI = <<"+">>
  /\ rewritten.out.URI = <<"+", "v">>

\* ------------------------------------------------------------------------
\* Properties of forwarding (checked under SpecForward)
\* ------------------------------------------------------------------------

\* the entries of the upstream server that a call may be handed to
Serving(call) ==
  CASE call.kind = "tool" -> {srvTools[call.target]}
    [] call.kind = "prompt" -> {srvPrompts[call.target]}
    [] call.kind \in {"resource", "template"} ->
         IF call.target \in DOMAIN srvResources
         THEN {srvResources[call.target]}
         ELSE {srvTemplates[t] :
               t \in {k \in DOMAIN srvTemplates : MatchesTemplate(k, call.target)}}

\* the backend that the registry names as the owner of an entry's item
OwnerOf(entry) ==
  GetBackendForCapability(Registry, entry.handler.kind, entry.item.Name).backend

\* C28: when the forwarded request fails, the handler returns the backend's
\* error unchanged
C28_BackendErrorComesBackUnchanged ==
  (/\ lastOp.op = "upstream"
   /\ lastOp.call.found
   /\ lastOp.call.reply.err # Nil)
  => lastOp.call.err = lastOp.call.reply.err

Waiting(g) ==
  \/ (\E step \in {"removeBackend", "store", "closeAll"} : At(g, step)) /\ ~CanLockM
  \/ (\E step \in {"getCurrentBackends", "verifyClientExists", "lookup"} : At(g, step))
     /\ ~CanRLockM

Busy == {g \in Goroutines : calls[g].todo # <<>>}

\* C31: no goroutine holds Interposer.mu, for reading or for writing, while
\* it sends a request to a backend or a notification to the upstream client
C31_NoRequestUnderTheLock ==
  \A g \in Goroutines :
    calls[g].locked => calls[g].doing \cap {"rpc", "notify"} = {}

\* UpdateCapabilityConfig has copied the client under the lock, released
\* the lock, and sent its requests
C31_Witness ==
  \E g \in Goroutines :
    /\ calls[g].op = "UpdateCapabilityConfig"
    /\ calls[g].existed
    /\ "rpc" \in calls[g].doing
    /\ ~calls[g].locked
    /\ ~Holds(g)

\* C34: no goroutine holds Interposer.mu while it is in a method of the
\* registry, and the goroutines never all wait for Interposer.mu
C34_NoNestedLocking ==
  /\ \A g \in Goroutines : calls[g].locked => "registry" \notin calls[g].doing
  /\ Busy # {} => \E g \in Busy : ~Waiting(g)

\* a goroutine has removed the capabilities of a backend from the registry
\* after it let go of the lock, which the other goroutine holds by now
C34_Witness ==
  \E g \in Goroutines :
    /\ "registry" \in calls[g].doing
    /\ calls[g].existed
    /\ ~calls[g].locked
    /\ imu.writer \in Goroutines \ {g}

\* both goroutines ran Reconfigure, every backend they started did start,
\* and both calls have returned
BothReturned ==
  \A g \in Goroutines :
    calls[g].op = "Reconfigure" /\ calls[g].todo = <<>> /\ ~calls[g].failed

\* the registry holds the capabilities of the sessions and no others
RegistryMatches ==
  /\ OwningBackends(Registry) \subseteq DOMAIN clients
  /\ \A name \in DOMAIN clients :
       \A kind \in Kinds :
         \A item \in Listed(name, kind) :
           GetBackendForCapability(Registry, kind,
                                   transform(name, kind, item).Name).backend = name

\* C37: once two overlapping Reconfigure calls have both returned, the
\* sessions are those of one of the two configurations, the registry holds
\* exactly their capabilities, and every client that is not in the session
\* map has been closed
C37_OverlappingReconfigure ==
  BothReturned
  => /\ \E g \in Goroutines :
          DOMAIN clients = DOMAIN prepareNewConfigMap(calls[g].configs)
     /\ RegistryMatches
     /\ \A mcpClient \in 1..created :
          \/ mcpClient \in {clients[n] : n \in DOMAIN clients}
          \/ mcpClient \in closed

\* ------------------------------------------------------------------------
\* Properties of the Watcher (checked under SpecWatcher)
\* ------------------------------------------------------------------------

\* when the timer set by the k-th handled event is due
DueAt(k) == handled[k] + DefaultDebounceInterval

\* the k-th handled event ends a burst: the next one, if any, comes after
\* the timer of this one is due
EndsBurst(k) == k = Len(handled) \/ handled[k + 1] > DueAt(k)

\* the runs of reloadConfig at a given time
RunsAt(time) == {j \in DOMAIN reloads : reloads[j].at = time}

\* the interval after the k-th handled event has elapsed with the Watcher
\* still open
Elapsed(k) ==
  /\ env.clock > DueAt(k)
  /\ env.closedAt = -1 \/ env.closedAt > DueAt(k)

\* reloadConfig runs only when the interval has elapsed since an event with
\* no other event in between
OnlyAfterTheInterval ==
  \A j \in DOMAIN reloads :
    \E k \in DOMAIN handled :
      /\ reloads[j].at = DueAt(k)
      /\ \A m \in DOMAIN handled :
           ~(handled[k] < handled[m] /\ handled[m] < DueAt(k))

C24_WatcherRunsUntilShutdown ==
  (/\ env.owner = "main"
   /\ env.at \in {"started", "serving"}
   /\ ~env.ctxDone)
    => cw.open /\ cw.looping

\* the server, with its enable (or its disable) policy replaced by the
\* capability it was compared with
WithOther ==
  IF verdict.type = "enable"
  THEN [server EXCEPT !.Enable = verdict.other]
  ELSE [server EXCEPT !.Disable = verdict.other]

\* two servers answer Disabled() and every Enabled(t, n) alike
SamePolicy(first, second) ==
  /\ Disabled(first) = Disabled(second)
  /\ \A t \in QueryTypes, n \in PolicyNames :
       Enabled(first, t, n) = Enabled(second, t, n)

\* C36: two capability configurations that CompareCapability reports as
\* equivalent give, as the enable or as the disable policy of otherwise
\* identical servers, the same Disabled() and the same Enabled(t, n)
C36_EquivalentMeansSamePolicy ==
  (verdict.op = "CompareCapability" /\ verdict.result)
  => SamePolicy(server, WithOther)

\* ------------------------------------------------------------------------
\* Properties of the capability policy (checked under SpecPolicy)
\* ------------------------------------------------------------------------

\* the disable policy of the configuration under test matches (type, name)
DisableMatches(s, capability, name) ==
  /\ s.Disable.present
  /\ \/ s.Disable.All
     \/ /\ capability \in DOMAIN s.Disable.Capabilities
        /\ InList(s.Disable.Capabilities[capability], name)

\* the enable policy is a whitelist: present, all = false, some list non-empty
IsWhitelist(s) ==
  /\ s.Enable.present
  /\ ~s.Enable.All
  /\ \E t \in DOMAIN s.Enable.Capabilities : Len(s.Enable.Capabilities[t]) > 0

\* the enable policy lists (type, name)
EnableLists(s, capability, name) ==
  /\ capability \in DOMAIN s.Enable.Capabilities
  /\ InList(s.Enable.Capabilities[capability], name)

\* C8: disable overrides enable.  Whenever the disable policy has all = true
\* or lists the name under the type, Enabled(type, name) answers false,
\* whatever the enable policy is.
C8_DisableOverridesEnable ==
  (verdict.op = "Enabled" /\ DisableMatches(server, verdict.type, verdict.name))
    => verdict.result = FALSE

\* C8 witness: a name both enabled (by list or by all = true) and disabled by
\* list has been asked for.
C8_Witness ==
  /\ verdict.op = "Enabled"
  /\ server.Disable.present /\ ~server.Disable.All
  /\ DisableMatches(server, verdict.type, verdict.name)
  /\ \/ EnableLists(server, verdict.type, verdict.name)
     \/ server.Enable.All
  /\ verdict.result = FALSE

\* C9: whitelist semantics.  With an enable policy that is present, has
\* all = false and at least one non-empty list, Enabled(type, name) is true
\* exactly when the name is listed under the type in the enable policy and
\* is not matched by the disable policy; a type with no entry is closed.
C9_WhitelistSemantics ==
  (verdict.op = "Enabled" /\ IsWhitelist(server))
    => (verdict.result =
          (/\ EnableLists(server, verdict.type, verdict.name)
           /\ ~DisableMatches(server, verdict.type, verdict.name)))

\* C9 witness: under a whitelist with nothing disabled, a name of a type that
\* has no entry in the enable map was asked for and refused.
C9_Witness ==
  /\ verdict.op = "Enabled"
  /\ IsWhitelist(server)
  /\ ~server.Disable.present
  /\ verdict.type \notin DOMAIN server.Enable.Capabilities
  /\ verdict.result = FALSE

\* C10: an enable policy that is present with all = false and an empty
\* by_type (what `enable: false` produces) makes the server Disabled(), and
\* none of its capabilities is Enabled.
C10_EmptyWhitelistIsDisabled ==
  (/\ server.Enable.present
   /\ ~server.Enable.All
   /\ DOMAIN server.Enable.Capabilities = {})
    => /\ verdict.op = "Disabled" => verdict.result = TRUE
       /\ verdict.op = "Enabled" => verdict.result = FALSE

\* C11: policy monotonicity I3.  For every server configuration, when
\* Disabled() is true, Enabled(type, name) answers false for every type and
\* every name.
C11_DisabledServerEnablesNothing ==
  (verdict.op = "Enabled" /\ Disabled(server)) => verdict.result = FALSE

\* C11 witness: a server that is Disabled() only because every list of its
\* enable map is empty, with no disable policy, was asked for a name.
C11_Witness ==
  /\ verdict.op = "Enabled"
  /\ hasAllEmptyCapabilityLists(server)
  /\ ~server.Disable.present
  /\ Disabled(server)
  /\ verdict.result = FALSE

=============================================================================
